---- MODULE Spec2Model ----
(***************************************************************************)
(* FloorSync: the FloorPlanRenderer of the floor-plan view (the latest     *)
(* snapshot, src/unnamed/part_009 lines 616-997) as a state machine.       *)
(*                                                                         *)
(* JavaScript numbers are modelled as exact rationals <<n, d>> in lowest   *)
(* terms with d > 0, so that every product, quotient and comparison of the *)
(* code is computed as written, without rounding.                          *)
(***************************************************************************)
EXTENDS Integers, Sequences, FiniteSets, TLC

(***************************************************************************)
(* Bounds of the model.                                                    *)
(***************************************************************************)
MaxTasks == 2
MaxGestures == 2
MaxItems == 2
MaxMutations == 3
MaxRenders == 6
MaxEffects == 3

(***************************************************************************)
(* Exact arithmetic.                                                       *)
(***************************************************************************)
Abs(a) == IF a < 0 THEN -a ELSE a

RECURSIVE GCD(_, _)
GCD(a, b) == IF b = 0 THEN a ELSE GCD(b, a % b)

Rat(n, d) ==
  LET s == IF d < 0 THEN -1 ELSE 1
      g == GCD(Abs(n), Abs(d))
  IN  <<(s * n) \div g, (s * d) \div g>>

Num(i) == <<i, 1>>
RAdd(a, b) == Rat(a[1] * b[2] + b[1] * a[2], a[2] * b[2])
RSub(a, b) == Rat(a[1] * b[2] - b[1] * a[2], a[2] * b[2])
RMul(a, b) == Rat(a[1] * b[1], a[2] * b[2])
RDiv(a, b) == Rat(a[1] * b[2], a[2] * b[1])
RLt(a, b) == a[1] * b[2] < b[1] * a[2]
RLe(a, b) == a[1] * b[2] <= b[1] * a[2]
RMin(a, b) == IF RLt(b, a) THEN b ELSE a

Half == Rat(1, 2)

(***************************************************************************)
(* Optional values: null is the empty sequence, a value v is <<v>>.        *)
(***************************************************************************)
Null == <<>>
Some(v) == <<v>>
IsNull(o) == o = <<>>
Val(o) == o[1]

(***************************************************************************)
(* Program constants (src/src/constants/index.ts).                         *)
(***************************************************************************)
DEFAULT_WIDTH == 800
DEFAULT_HEIGHT == 600
MARKER_RADIUS == 12
FLOOR_PLAN_SCALE_FACTOR == Rat(9, 10)
CLICK_THRESHOLD == 5

(***************************************************************************)
(* Inputs.                                                                 *)
(***************************************************************************)
TaskIds == 1..MaxTasks

\* Identities of PIXI.Graphics objects.  A marker is only ever registered
\* under the id of the task it was drawn for, so two identities for each id
\* are enough for a new object to differ from every object that exists.
Handles == TaskIds \X {0, 1}

ItemStatuses == {"not_started", "in_progress", "blocked", "final_check_awaiting", "done"}

\* The normalized coordinates the task with this id was created at: they
\* run from the corner (0, 1) to the edge x = 1 and tell x from y.
CoordinatesOf(id) == [x |-> Rat(id - 1, MaxTasks - 1), y |-> Rat(MaxTasks - id + 1, MaxTasks)]

\* A checklist item: its status and its text.
Item(status) == [status |-> status, text |-> "a"]

\* The documents of the tasks, one for each id.
TaskDocuments ==
  {[id |-> id, coordinates |-> CoordinatesOf(id),
    checklist |-> <<Item("not_started"), Item("done")>>] : id \in TaskIds}

\* Task arrays as the stores hand them out: one document per id.
TaskArrays ==
  {ts \in UNION {[1..n -> TaskDocuments] : n \in 0..MaxTasks} :
     \A i, j \in 1..Len(ts) : i < j => ts[i].id < ts[j].id}

TaskIdsOf(tasks) == {tasks[i].id : i \in 1..Len(tasks)}

\* The task arrays of a store that only gains tasks: the first n tasks.
GrowingTaskArrays == {ts \in TaskArrays : TaskIdsOf(ts) = 1..Len(ts)}

\* The changed-id sets, in the order a Set iterates them.
ChangedSets ==
  {c \in UNION {[1..n -> TaskIds] : n \in 0..MaxTasks} :
     \A i, j \in 1..Len(c) : i < j => c[i] < c[j]}

\* The checklists of up to MaxItems items over the five statuses, and the
\* task arrays of one task with each of them.
Checklists == UNION {[1..n -> {Item(st) : st \in ItemStatuses}] : n \in 0..MaxItems}

StatusTaskArrays ==
  {<<[id |-> 1, coordinates |-> CoordinatesOf(1), checklist |-> c]>> : c \in Checklists}

\* The tasks handed to the early renderer: one task under every checklist of
\* up to MaxItems items, over the five statuses and the texts.
EarlyTasks ==
  {[id |-> 1, coordinates |-> CoordinatesOf(1), checklist |-> c] :
     c \in UNION {[1..n -> {[status |-> st, text |-> t] : st \in ItemStatuses, t \in {"a", "b"}}] :
                    n \in 0..MaxItems}}

\* Inputs of the task store: the positions of a checklist's items (an item
\* id stands for the position of the item that carries it), the statuses and
\* the texts given to items, and the partial documents passed to updateTask.
ItemSlots == {1, 2}
NewStatuses == {"in_progress", "done"}
Texts == {"a", "b"}
Updates ==
  {[checklist |-> <<>>]} \cup {[coordinates |-> CoordinatesOf(id)] : id \in TaskIds}

\* Bounding boxes of the mount element (getBoundingClientRect); 0 x 0 is an
\* element that is not laid out.
HostSizes == {<<0, 0>>, <<400, 400>>, <<500, 300>>}

\* Bounding boxes for a sequence of resizes: not laid out, two of the
\* image's aspect ratio, one that is wider.
ResizeSizes == {<<0, 0>>, <<400, 300>>, <<800, 600>>, <<500, 300>>}

\* Natural sizes of the floor-plan image.
Textures == {<<1600, 1200>>}

\* Pointer positions in canvas pixels (event.global), all over the image:
\* a down position, and positions 2.2, 5 and 10 pixels from it.
PointerPositions == {<<100, 100>>, <<102, 101>>, <<104, 103>>, <<110, 100>>}

\* Pointer positions about the left edge of the image, which on the
\* 800 x 600 screen of a new renderer lies at x = 40 for a 1600 x 1200
\* image: 2 px outside, on the edge, 3 px and 10 px inside.
\* Pointer positions on the image: a down position, one within the click
\* threshold of it and one beyond.
ViewportPositions == {<<100, 100>>, <<103, 100>>, <<110, 100>>}

\* The users that log in.
Users == {"A", "B"}

\* The task lists of the viewport runs: no task, or one.
ViewportTasks == {ts \in GrowingTaskArrays : Len(ts) <= 1}

EdgePositions == {<<38, 100>>, <<40, 100>>, <<43, 100>>, <<50, 100>>}

(***************************************************************************)
(* State.                                                                  *)
(*   pc                 where initialize() stands: "new" (constructed),    *)
(*                      "awaitInit" (suspended at pixiApp.init),           *)
(*                      "awaitLoad" (suspended at PIXI.Assets.load),       *)
(*                      "ready" (resolved), "failed" (rejected)            *)
(*   pixiApp            Null, or the PIXI.Application: [inited, renderer,  *)
(*                      stage, destroyed, width, height]; inited: init()   *)
(*                      has resolved; renderer, stage: app.renderer and    *)
(*                      app.stage are set; destroyed: destroy() has been   *)
(*                      called on it; width, height: the screen            *)
(*   contentContainer   Null, or its position [x, y]                       *)
(*   markerContainer    Null, or [scale, x, y, children]; children is the  *)
(*                      sequence of marker handles it holds                *)
(*   floorPlanSprite    Null, or [scale, x, y, texture]; anchor is 0.5     *)
(*   markerTextures     the registry: task id -> marker handle             *)
(*   graphics           the PIXI.Graphics objects that are reachable:      *)
(*                      handle -> [x, y, status, task]; task is the        *)
(*                      document the marker was drawn for                  *)
(*   isDragging, dragStart, contentStartPos, clickStartPosition            *)
(*                      the fields of the same names                       *)
(*   clickEnabled       the sprite carries the handlers of enableClick     *)
(*   pressed            the pointer button is down (environment)           *)
(*   gesture            the gesture in progress: Null, or where the pointer*)
(*                      went down and where it is now (down, at), and as   *)
(*                      history what was under it at the down (target),    *)
(*                      whether it has been farther than the threshold     *)
(*                      from the down position (exceeded), the content     *)
(*                      container's position at the down (offset) and      *)
(*                      whether enableClick had been called (armed)        *)
(*   gestures           the number of gestures begun (environment)         *)
(*   lastOp             history: the last operation and its arguments      *)
(*   store              the task store's state: [tasks, tasksNeedingRepaint]*)
(*   view               the floor-plan view: the tasks and the repaint set *)
(*                      of its last render, and whether the repaint effect *)
(*                      of that render has yet to run (pending)            *)
(*   unpainted          history: the ids that left the store's repaint set *)
(*                      without having been passed to repaintChangedMarkers*)
(*   mutations          the number of store operations begun (environment) *)
(***************************************************************************)
VARIABLES pc, pixiApp, contentContainer, markerContainer, floorPlanSprite,
          markerTextures, graphics, isDragging, dragStart, contentStartPos,
          clickStartPosition, clickEnabled, pressed, gesture, gestures, lastOp,
          store, view, unpainted, mutations, app

sceneVars == <<pixiApp, contentContainer, markerContainer, floorPlanSprite>>
markerVars == <<markerTextures, graphics>>
dragVars == <<isDragging, dragStart, contentStartPos>>
pointerVars == <<clickStartPosition, pressed, gesture, gestures>>
hostVars == <<store, view, unpainted, mutations, app>>
rendererVars == <<pc, sceneVars, markerVars, dragVars, pointerVars, clickEnabled>>
vars == <<pc, pixiApp, contentContainer, markerContainer, floorPlanSprite,
          markerTextures, graphics, isDragging, dragStart, contentStartPos,
          clickStartPosition, clickEnabled, pressed, gesture, gestures, lastOp,
          store, view, unpainted, mutations, app>>

EmptyMap == [i \in {} |-> 0]

\* A component that uses useReactiveComponent, before it is mounted: the
\* renders it has had, whether a state update asks for another one, whether
\* the effects of its last render are still to run, and the subscriptions
\* its Unsubscriber holds on each observable.
Unmounted(observables) ==
  [renders |-> 0, renderPending |-> FALSE, effectPending |-> FALSE,
   subscriptions |-> [o \in observables |-> 0]]

Op(name) == [op |-> name]

Init ==
  /\ pc = "new"
  /\ pixiApp = Null
  /\ contentContainer = Null
  /\ markerContainer = Null
  /\ floorPlanSprite = Null
  /\ markerTextures = EmptyMap
  /\ graphics = EmptyMap
  /\ isDragging = FALSE
  /\ dragStart = Null
  /\ contentStartPos = Null
  /\ clickStartPosition = Null
  /\ clickEnabled = FALSE
  /\ pressed = FALSE
  /\ gesture = Null
  /\ gestures = 0
  /\ lastOp = Op("new")
  /\ store = [tasks |-> <<>>, tasksLoaded |-> FALSE, tasksNeedingRepaint |-> {},
              isLoading |-> FALSE]
  /\ view = [tasks |-> <<>>, tasksNeedingRepaint |-> {}, engineReady |-> FALSE, effects |-> <<>>]
  /\ unpainted = {}
  /\ mutations = 0
  /\ app = [calls |-> {}, userSession |-> Null, databases |-> [u \in Users |-> <<>>],
            subscriptions |-> {},
            Dashboard |-> Unmounted({"userSession$", "tasks$"}),
            FloorPlanView |-> Unmounted({"userSession$", "tasks$", "tasksNeedingRepaint$"}),
            initEffects |-> <<>>, engineRef |-> Null,
            collection |-> <<>>, querySubscribed |-> FALSE,
            emissions |-> {}, tasksChanged |-> FALSE,
            earlyView |-> [mounted |-> FALSE, isLoading |-> TRUE, engineRef |-> Null,
                           renderers |-> 0, pendingInits |-> {},
                           rendered |-> [userSession |-> Null, isLoading |-> TRUE, tasks |-> <<>>],
                           effects |-> <<>>, drawn |-> Null]]

(***************************************************************************)
(* Helpers of the renderer.                                                *)
(***************************************************************************)
\* getElementDimensions: a zero width or height falls back to the default.
getElementDimensions(size) ==
  [width  |-> IF size[1] = 0 THEN DEFAULT_WIDTH ELSE size[1],
   height |-> IF size[2] = 0 THEN DEFAULT_HEIGHT ELSE size[2]]

ensureInitialized == ~IsNull(pixiApp)
ensureMarkerContainer == ~IsNull(markerContainer)

\* Mutant: coordinates on the border of the image are invalid.
validateRelativeCoordinates_Open(relativeX, relativeY) ==
  ~(RLe(relativeX, Num(0)) \/ RLe(Num(1), relativeX)
      \/ RLe(relativeY, Num(0)) \/ RLe(Num(1), relativeY))

validateRelativeCoordinates(relativeX, relativeY) ==
  ~(RLt(relativeX, Num(0)) \/ RLt(Num(1), relativeX)
      \/ RLt(relativeY, Num(0)) \/ RLt(Num(1), relativeY))

\* Math.min(width / texture.width, height / texture.height) * 0.9
FitScale(width, height, texture) ==
  RMul(RMin(Rat(width, texture[1]), Rat(height, texture[2])), FLOOR_PLAN_SCALE_FACTOR)

\* sprite.getLocalBounds(): the texture frame; sprite.getBounds(): the frame
\* under the sprite's scale, anchored at its centre, in global coordinates
\* (the content container translates, it does not scale).
SpriteLocalBounds(sprite) ==
  [width |-> Num(sprite.texture[1]), height |-> Num(sprite.texture[2])]

SpriteBounds(sprite, content) ==
  LET w == RMul(Num(sprite.texture[1]), sprite.scale)
      h == RMul(Num(sprite.texture[2]), sprite.scale)
  IN  [x |-> RSub(RAdd(content.x, sprite.x), RMul(Half, w)),
       y |-> RSub(RAdd(content.y, sprite.y), RMul(Half, h)),
       width |-> w, height |-> h]

\* Where a marker handle is drawn on the screen: the content container's
\* translation, then the marker container's translation and scale.
MarkerScreen(h) ==
  LET mc == Val(markerContainer)
      cc == Val(contentContainer)
  IN  [x |-> RAdd(cc.x, RAdd(mc.x, RMul(mc.scale, graphics[h].x))),
       y |-> RAdd(cc.y, RAdd(mc.y, RMul(mc.scale, graphics[h].y)))]

screenToFloorPlanCoords(screenX, screenY) ==
  IF IsNull(floorPlanSprite) \/ IsNull(contentContainer) THEN Null
  ELSE
    LET sprite == Val(floorPlanSprite)
        cc == Val(contentContainer)
        adjustedScreenX == RSub(screenX, cc.x)
        adjustedScreenY == RSub(screenY, cc.y)
        bounds == SpriteBounds(sprite, cc)
        localBounds == SpriteLocalBounds(sprite)
        relativeX == RDiv(RSub(adjustedScreenX, RSub(bounds.x, cc.x)),
                          RMul(localBounds.width, sprite.scale))
        relativeY == RDiv(RSub(adjustedScreenY, RSub(bounds.y, cc.y)),
                          RMul(localBounds.height, sprite.scale))
    IN  IF ~validateRelativeCoordinates(relativeX, relativeY) THEN Null
        ELSE Some([x |-> relativeX, y |-> relativeY])

\* Mutant: an item under way outranks a blocked one.
getTaskOverallStatus_InProgressFirst(task) ==
  LET checklist == task.checklist
      Count(st) == Cardinality({i \in 1..Len(checklist) : checklist[i].status = st})
      doneCount == Count("done")
      blockedCount == Count("blocked")
      notStartedCount == Count("not_started")
  IN  IF Len(checklist) = 0 THEN "not_started"
      ELSE IF doneCount = Len(checklist) THEN "done"
      ELSE IF notStartedCount < Len(checklist) /\ doneCount > 0 THEN "in_progress"
      ELSE IF blockedCount > 0 THEN "blocked"
      ELSE IF notStartedCount < Len(checklist) THEN "in_progress"
      ELSE "not_started"

getTaskOverallStatus(task) ==
  LET checklist == task.checklist
      Count(st) == Cardinality({i \in 1..Len(checklist) : checklist[i].status = st})
      doneCount == Count("done")
      blockedCount == Count("blocked")
      notStartedCount == Count("not_started")
  IN  IF Len(checklist) = 0 THEN "not_started"
      ELSE IF blockedCount > 0 THEN "blocked"
      ELSE IF doneCount = Len(checklist) THEN "done"
      ELSE IF notStartedCount < Len(checklist) THEN "in_progress"
      ELSE "not_started"

(***************************************************************************)
(* The early renderer (src/src/components/FloorPlanView.tsx): the status   *)
(* its renderSingleMarker draws a task with.                               *)
(***************************************************************************)
\* Mutant: the early renderer counts every started item, as the later does.
earlyGetTaskOverallStatus_AnyStarted(task) == getTaskOverallStatus(task)

earlyGetTaskOverallStatus(task) ==
  LET checklist == task.checklist
      Count(st) == Cardinality({i \in 1..Len(checklist) : checklist[i].status = st})
      doneCount == Count("done")
      blockedCount == Count("blocked")
      inProgressCount == Count("in_progress")
  IN  IF Len(checklist) = 0 THEN "not_started"
      ELSE IF blockedCount > 0 THEN "blocked"
      ELSE IF doneCount = Len(checklist) THEN "done"
      ELSE IF inProgressCount > 0 THEN "in_progress"
      ELSE "not_started"

\* The early renderSingleMarker(task), as far as the status goes.
earlyRenderSingleMarker(task) ==
  /\ lastOp' = [op |-> "earlyRenderSingleMarker", task |-> task,
                status |-> earlyGetTaskOverallStatus(task)]
  /\ UNCHANGED <<rendererVars, hostVars>>

(***************************************************************************)
(* Markers.  A marker batch m = [reg, children, gfx, used] is the registry,*)
(* the marker container's children and the Graphics objects while one      *)
(* operation runs; used is every handle that exists, so that new           *)
(* PIXI.Graphics() is an object distinct from all of them.                 *)
(***************************************************************************)
NewHandle(used, id) ==
  LET free == {h \in Handles \ used : h[1] = id}
  IN  CHOOSE h \in free : \A g \in free : h[2] <= g[2]

Without(seq, h) == SelectSeq(seq, LAMBDA e : e # h)

Put(f, k, v) == [i \in DOMAIN f \cup {k} |-> IF i = k THEN v ELSE f[i]]
Drop(f, k) == [i \in DOMAIN f \ {k} |-> f[i]]

\* Only the objects still referenced by the registry or the container are kept.
Reachable(m) ==
  LET live == {m.reg[i] : i \in DOMAIN m.reg} \cup {m.children[i] : i \in 1..Len(m.children)}
  IN  [h \in live |-> m.gfx[h]]

\* Mutant: the marker is placed from the image's corner, not from its centre.
renderSingleMarker_FromCorner(m, task) ==
  IF ~ensureMarkerContainer \/ IsNull(floorPlanSprite) THEN m
  ELSE
    LET status == getTaskOverallStatus(task)
        marker == NewHandle(m.used, task.id)
        texture == Val(floorPlanSprite).texture
        localX == RMul(task.coordinates.x, Num(texture[1]))
        localY == RMul(task.coordinates.y, Num(texture[2]))
    IN  [reg |-> Put(m.reg, task.id, marker),
         children |-> Append(m.children, marker),
         gfx |-> Put(m.gfx, marker, [x |-> localX, y |-> localY, status |-> status, task |-> task]),
         used |-> m.used \cup {marker}]

renderSingleMarker(m, task) ==
  IF ~ensureMarkerContainer \/ IsNull(floorPlanSprite) THEN m
  ELSE
    LET status == getTaskOverallStatus(task)
        marker == NewHandle(m.used, task.id)
        texture == Val(floorPlanSprite).texture
        localX == RMul(RSub(task.coordinates.x, Half), Num(texture[1]))
        localY == RMul(RSub(task.coordinates.y, Half), Num(texture[2]))
    IN  [reg |-> Put(m.reg, task.id, marker),
         children |-> Append(m.children, marker),
         gfx |-> Put(m.gfx, marker, [x |-> localX, y |-> localY, status |-> status, task |-> task]),
         used |-> m.used \cup {marker}]

RECURSIVE RenderEach(_, _)
RenderEach(m, tasks) ==
  IF tasks = <<>> THEN m
  ELSE RenderEach(renderSingleMarker(m, Head(tasks)), Tail(tasks))

\* tasks.find(t => t.id === taskId)
Find(tasks, taskId) ==
  LET hits == {i \in 1..Len(tasks) : tasks[i].id = taskId}
  IN  IF hits = {} THEN Null
      ELSE Some(tasks[CHOOSE i \in hits : \A j \in hits : i <= j])

\* Mutant: the existing marker is not removed before the task is drawn again.
RepaintOne_NoRemoval(m, taskId, tasks) ==
  LET task == Find(tasks, taskId)
  IN  IF IsNull(task) THEN m ELSE renderSingleMarker(m, Val(task))

\* Mutant: the marker of a deleted task leaves the container but stays
\* registered.
RepaintOne_KeepsRegistry(m, taskId, tasks) ==
  LET removed ==
        IF taskId \in DOMAIN m.reg
        THEN [m EXCEPT !.children = Without(m.children, m.reg[taskId])]
        ELSE m
      task == Find(tasks, taskId)
  IN  IF IsNull(task) THEN removed
      ELSE renderSingleMarker([removed EXCEPT !.reg = Drop(m.reg, taskId)], Val(task))

\* The body of changedTaskIds.forEach for one id.
RepaintOne(m, taskId, tasks) ==
  LET removed ==
        IF taskId \in DOMAIN m.reg
        THEN [m EXCEPT !.children = Without(m.children, m.reg[taskId]),
                       !.reg = Drop(m.reg, taskId)]
        ELSE m
      task == Find(tasks, taskId)
  IN  IF IsNull(task) THEN removed ELSE renderSingleMarker(removed, Val(task))

RECURSIVE RepaintEach(_, _, _)
RepaintEach(m, changed, tasks) ==
  IF changed = <<>> THEN m
  ELSE RepaintEach(RepaintOne(m, Head(changed), tasks), Tail(changed), tasks)

Batch ==
  [reg |-> markerTextures,
   children |-> IF IsNull(markerContainer) THEN <<>> ELSE Val(markerContainer).children,
   gfx |-> graphics,
   used |-> DOMAIN graphics]

Commit(m) ==
  /\ markerTextures' = m.reg
  /\ graphics' = Reachable(m)
  /\ markerContainer' = Some([Val(markerContainer) EXCEPT !.children = m.children])

\* Mutant: the registry is cleared but the container keeps its children.
renderAllMarkers_KeepsChildren(tasks) ==
  /\ lastOp' = [op |-> "renderAll", ids |-> TaskIdsOf(tasks), ready |-> pc = "ready",
                again |-> lastOp = [op |-> "renderAll", ids |-> TaskIdsOf(tasks),
                                    ready |-> pc = "ready", again |-> FALSE]]
  /\ IF ~ensureMarkerContainer
     THEN UNCHANGED <<markerTextures, graphics, markerContainer>>
     ELSE Commit(RenderEach([Batch EXCEPT !.reg = EmptyMap], tasks))
  /\ UNCHANGED <<pc, pixiApp, contentContainer, floorPlanSprite, dragVars,
                 pointerVars, clickEnabled>>

renderAllMarkers(tasks) ==
  /\ lastOp' = [op |-> "renderAll", ids |-> TaskIdsOf(tasks), ready |-> pc = "ready",
                again |-> lastOp = [op |-> "renderAll", ids |-> TaskIdsOf(tasks),
                                    ready |-> pc = "ready", again |-> FALSE]]
  /\ IF ~ensureMarkerContainer
     THEN UNCHANGED <<markerTextures, graphics, markerContainer>>
     ELSE Commit(RenderEach([Batch EXCEPT !.children = <<>>, !.reg = EmptyMap], tasks))
  /\ UNCHANGED <<pc, pixiApp, contentContainer, floorPlanSprite, dragVars,
                 pointerVars, clickEnabled>>

\* Mutant: every marker is redrawn, whatever the changed ids are.
repaintChangedMarkers_RedrawsAll(changedTaskIds, tasks) ==
  /\ lastOp' = [op |-> "repaint", changed |-> changedTaskIds, ids |-> TaskIdsOf(tasks),
                ready |-> pc = "ready",
                removed |-> {changedTaskIds[i] : i \in 1..Len(changedTaskIds)}
                              \cap DOMAIN markerTextures]
  /\ IF ~ensureMarkerContainer
     THEN UNCHANGED <<markerTextures, graphics, markerContainer>>
     ELSE Commit(RenderEach([Batch EXCEPT !.children = <<>>, !.reg = EmptyMap], tasks))
  /\ UNCHANGED <<pc, pixiApp, contentContainer, floorPlanSprite, dragVars,
                 pointerVars, clickEnabled>>

\* Mutant: an empty changed-id set clears the markers.
repaintChangedMarkers_EmptyClears(changedTaskIds, tasks) ==
  /\ lastOp' = [op |-> "repaint", changed |-> changedTaskIds, ids |-> TaskIdsOf(tasks),
                ready |-> pc = "ready",
                removed |-> {changedTaskIds[i] : i \in 1..Len(changedTaskIds)}
                              \cap DOMAIN markerTextures]
  /\ IF ~ensureMarkerContainer
     THEN UNCHANGED <<markerTextures, graphics, markerContainer>>
     ELSE IF changedTaskIds = <<>>
     THEN Commit([Batch EXCEPT !.children = <<>>, !.reg = EmptyMap])
     ELSE Commit(RepaintEach(Batch, changedTaskIds, tasks))
  /\ UNCHANGED <<pc, pixiApp, contentContainer, floorPlanSprite, dragVars,
                 pointerVars, clickEnabled>>

\* repaintChangedMarkers(changedTaskIds, tasks); what the caller does in the
\* same step is stated where it is called.
repaintChangedMarkers(changedTaskIds, tasks) ==
  /\ lastOp' = [op |-> "repaint", changed |-> changedTaskIds, ids |-> TaskIdsOf(tasks),
                ready |-> pc = "ready",
                removed |-> {changedTaskIds[i] : i \in 1..Len(changedTaskIds)}
                              \cap DOMAIN markerTextures]
  /\ IF ~ensureMarkerContainer
     THEN UNCHANGED <<markerTextures, graphics, markerContainer>>
     ELSE Commit(RepaintEach(Batch, changedTaskIds, tasks))
  /\ UNCHANGED <<pc, pixiApp, contentContainer, floorPlanSprite, dragVars,
                 pointerVars, clickEnabled>>

(***************************************************************************)
(* initialize(container), in its three parts: up to the await of           *)
(* pixiApp.init, from there to the await of PIXI.Assets.load inside        *)
(* loadFloorPlan, and the rest of loadFloorPlan.                           *)
(***************************************************************************)
initialize(size) ==
  /\ pc = "new"
  /\ LET dim == getElementDimensions(size)
     IN  pixiApp' = Some([inited |-> FALSE, renderer |-> FALSE, stage |-> TRUE,
                          destroyed |-> FALSE, width |-> dim.width, height |-> dim.height])
  /\ pc' = "awaitInit"
  /\ lastOp' = Op("initialize")
  /\ UNCHANGED <<contentContainer, markerContainer, floorPlanSprite, markerVars,
                 dragVars, pointerVars, clickEnabled>>
  /\ UNCHANGED hostVars

\* pixiApp.init resolved: the containers are created, enableDragPanning
\* registers the drag handlers, loadFloorPlan starts and suspends.  On an
\* application whose stage is gone, this.pixiApp.stage.addChild throws after
\* the two containers have been assigned, and initialize rejects.
initializeResumed ==
  /\ pc = "awaitInit"
  /\ pixiApp' = Some([Val(pixiApp) EXCEPT !.inited = TRUE, !.renderer = TRUE])
  /\ contentContainer' = Some([x |-> Num(0), y |-> Num(0)])
  /\ markerContainer' = Some([scale |-> Num(1), x |-> Num(0), y |-> Num(0), children |-> <<>>])
  /\ pc' = IF Val(pixiApp).stage THEN "awaitLoad" ELSE "failed"
  /\ lastOp' = Op("initializeResumed")
  /\ UNCHANGED <<floorPlanSprite, markerVars, dragVars, pointerVars, clickEnabled>>
  /\ UNCHANGED hostVars

\* PIXI.Assets.load resolved with the texture.  The sprite is assigned
\* first; this.pixiApp.screen reads the renderer's screen and throws on an
\* application without renderer: the catch block rethrows, initialize
\* rejects, and the new sprite stays as constructed (scale 1 at (0, 0)).
loadFloorPlan(texture) ==
  /\ pc = "awaitLoad"
  /\ IF ~Val(pixiApp).renderer
     THEN /\ floorPlanSprite' = Some([scale |-> Num(1), x |-> Num(0), y |-> Num(0),
                                      texture |-> texture])
          /\ UNCHANGED markerContainer
          /\ pc' = "failed"
     ELSE
       LET appWidth == Val(pixiApp).width
           appHeight == Val(pixiApp).height
           scale == FitScale(appWidth, appHeight, texture)
       IN  /\ floorPlanSprite' = Some([scale |-> scale, x |-> Rat(appWidth, 2),
                                       y |-> Rat(appHeight, 2), texture |-> texture])
           /\ markerContainer' =
                IF IsNull(markerContainer) THEN markerContainer
                ELSE Some([Val(markerContainer) EXCEPT !.scale = scale,
                                                       !.x = Rat(appWidth, 2),
                                                       !.y = Rat(appHeight, 2)])
           /\ pc' = "ready"
  /\ lastOp' = Op("loadFloorPlan")
  /\ UNCHANGED <<pixiApp, contentContainer, markerVars, dragVars, pointerVars, clickEnabled>>
  /\ UNCHANGED hostVars

\* PIXI.Assets.load rejected: the catch block rethrows, initialize rejects.
loadFloorPlanFailed ==
  /\ pc = "awaitLoad"
  /\ pc' = "failed"
  /\ lastOp' = Op("loadFloorPlanFailed")
  /\ UNCHANGED <<sceneVars, markerVars, dragVars, pointerVars, clickEnabled>>
  /\ UNCHANGED hostVars

\* History of a resize call: whether it threw, the element's size, and the
\* size of the call before it when that was a resize too.
ResizeOp(threw, size) ==
  [op |-> "resize", threw |-> threw, size |-> size,
   previous |-> IF lastOp.op = "resize" THEN Some(lastOp.size) ELSE Null]

\* Mutant: resize refits the sprite and leaves the marker container as it was.
resize_SpriteOnly(size) ==
  /\ LET dim == getElementDimensions(size)
         width == dim.width
         height == dim.height
     IN  IF ~ensureInitialized
         THEN /\ lastOp' = ResizeOp(FALSE, size)
              /\ UNCHANGED <<pixiApp, floorPlanSprite>>
         ELSE IF ~Val(pixiApp).renderer
         THEN /\ lastOp' = ResizeOp(TRUE, size)
              /\ UNCHANGED <<pixiApp, floorPlanSprite>>
         ELSE
           /\ lastOp' = ResizeOp(FALSE, size)
           /\ pixiApp' = Some([Val(pixiApp) EXCEPT !.width = width, !.height = height])
           /\ IF ~IsNull(floorPlanSprite) /\ ~IsNull(markerContainer) /\ ~IsNull(contentContainer)
              THEN floorPlanSprite' =
                     Some([Val(floorPlanSprite) EXCEPT
                             !.scale = FitScale(width, height, Val(floorPlanSprite).texture),
                             !.x = Rat(width, 2),
                             !.y = Rat(height, 2)])
              ELSE UNCHANGED floorPlanSprite
  /\ UNCHANGED <<pc, contentContainer, markerContainer, markerVars, dragVars, pointerVars,
                 clickEnabled>>
  /\ UNCHANGED hostVars

\* Mutant: a resize never enlarges the scale it finds.
resize_NeverGrows(size) ==
  /\ LET dim == getElementDimensions(size)
         width == dim.width
         height == dim.height
     IN  IF ~ensureInitialized
         THEN /\ lastOp' = ResizeOp(FALSE, size)
              /\ UNCHANGED <<pixiApp, floorPlanSprite, markerContainer>>
         ELSE IF ~Val(pixiApp).renderer
         THEN /\ lastOp' = ResizeOp(TRUE, size)
              /\ UNCHANGED <<pixiApp, floorPlanSprite, markerContainer>>
         ELSE
           /\ lastOp' = ResizeOp(FALSE, size)
           /\ pixiApp' = Some([Val(pixiApp) EXCEPT !.width = width, !.height = height])
           /\ IF ~IsNull(floorPlanSprite) /\ ~IsNull(markerContainer) /\ ~IsNull(contentContainer)
              THEN LET texture == Val(floorPlanSprite).texture
                       scale == RMin(Val(floorPlanSprite).scale, FitScale(width, height, texture))
                   IN  /\ floorPlanSprite' =
                            Some([Val(floorPlanSprite) EXCEPT !.scale = scale,
                                                             !.x = Rat(width, 2),
                                                             !.y = Rat(height, 2)])
                       /\ markerContainer' =
                            Some([Val(markerContainer) EXCEPT !.scale = scale,
                                                              !.x = Rat(width, 2),
                                                              !.y = Rat(height, 2)])
              ELSE UNCHANGED <<floorPlanSprite, markerContainer>>
  /\ UNCHANGED <<pc, contentContainer, markerVars, dragVars, pointerVars, clickEnabled>>
  /\ UNCHANGED hostVars

\* resize(mountElement).  Before pixiApp.init has resolved the application
\* has no renderer yet, after pixiApp.destroy it has none any more, and
\* this.pixiApp!.renderer.resize throws.
resize(size) ==
  /\ LET dim == getElementDimensions(size)
         width == dim.width
         height == dim.height
     IN  IF ~ensureInitialized
         THEN /\ lastOp' = ResizeOp(FALSE, size)
              /\ UNCHANGED <<pixiApp, floorPlanSprite, markerContainer>>
         ELSE IF ~Val(pixiApp).renderer
         THEN /\ lastOp' = ResizeOp(TRUE, size)
              /\ UNCHANGED <<pixiApp, floorPlanSprite, markerContainer>>
         ELSE
           /\ lastOp' = ResizeOp(FALSE, size)
           /\ pixiApp' = Some([Val(pixiApp) EXCEPT !.width = width, !.height = height])
           /\ IF ~IsNull(floorPlanSprite) /\ ~IsNull(markerContainer) /\ ~IsNull(contentContainer)
              THEN LET texture == Val(floorPlanSprite).texture
                       scale == FitScale(width, height, texture)
                   IN  /\ floorPlanSprite' =
                            Some([Val(floorPlanSprite) EXCEPT !.scale = scale,
                                                             !.x = Rat(width, 2),
                                                             !.y = Rat(height, 2)])
                       /\ markerContainer' =
                            Some([Val(markerContainer) EXCEPT !.scale = scale,
                                                              !.x = Rat(width, 2),
                                                              !.y = Rat(height, 2)])
              ELSE UNCHANGED <<floorPlanSprite, markerContainer>>
  /\ UNCHANGED <<pc, contentContainer, markerVars, dragVars, pointerVars, clickEnabled>>
  /\ UNCHANGED hostVars

\* enableClick(callback).  The view calls it once for each renderer, after
\* initialize has resolved (part_009 lines 1160-1186).
enableClick ==
  /\ pc = "ready"
  /\ ~clickEnabled
  /\ clickEnabled' = ~IsNull(floorPlanSprite)
  /\ lastOp' = Op("enableClick")
  /\ UNCHANGED <<pc, sceneVars, markerVars, dragVars, pointerVars>>
  /\ UNCHANGED hostVars

\* destroy(): pixiApp.destroy(true) when there is an application; no field of
\* the renderer is reset.  Application.destroy drops the stage (its children
\* are detached, not destroyed) and the renderer.  On an application whose
\* init has not resolved it throws for want of a renderer, with the stage
\* dropped or not; on a destroyed application it throws for want of a stage.
destroy ==
  /\ IF IsNull(pixiApp)
     THEN /\ UNCHANGED pixiApp
          /\ lastOp' = [op |-> "destroy", threw |-> FALSE]
     ELSE IF ~Val(pixiApp).stage
     THEN /\ pixiApp' = Some([Val(pixiApp) EXCEPT !.destroyed = TRUE])
          /\ lastOp' = [op |-> "destroy", threw |-> TRUE]
     ELSE IF ~Val(pixiApp).renderer
     THEN /\ \E stage \in BOOLEAN :
               pixiApp' = Some([Val(pixiApp) EXCEPT !.destroyed = TRUE, !.stage = stage])
          /\ lastOp' = [op |-> "destroy", threw |-> TRUE]
     ELSE /\ pixiApp' = Some([Val(pixiApp) EXCEPT !.destroyed = TRUE, !.stage = FALSE,
                                                 !.renderer = FALSE])
          /\ lastOp' = [op |-> "destroy", threw |-> FALSE]
  /\ UNCHANGED <<pc, contentContainer, markerContainer, floorPlanSprite, markerVars,
                 dragVars, pointerVars, clickEnabled>>
  /\ UNCHANGED hostVars

(***************************************************************************)
(* Pointer events.  PIXI delivers an event to the topmost interactive      *)
(* object under the pointer and lets it bubble: markers lie over the       *)
(* sprite, both are descendants of the content container and of the stage, *)
(* and nothing else on the stage can be hit.                               *)
(***************************************************************************)
Sq(a) == RMul(a, a)

HitMarker(p) ==
  /\ ~IsNull(markerContainer)
  /\ ~IsNull(contentContainer)
  /\ \E i \in 1..Len(Val(markerContainer).children) :
       LET at == MarkerScreen(Val(markerContainer).children[i])
       IN  RLe(RAdd(Sq(RSub(Num(p[1]), at.x)), Sq(RSub(Num(p[2]), at.y))),
               Sq(RMul(Num(MARKER_RADIUS), Val(markerContainer).scale)))

HitSprite(p) ==
  /\ ~IsNull(floorPlanSprite)
  /\ ~IsNull(contentContainer)
  /\ LET b == SpriteBounds(Val(floorPlanSprite), Val(contentContainer))
     IN  /\ RLe(b.x, Num(p[1])) /\ RLe(Num(p[1]), RAdd(b.x, b.width))
         /\ RLe(b.y, Num(p[2])) /\ RLe(Num(p[2]), RAdd(b.y, b.height))

HitTest(p) ==
  IF HitMarker(p) THEN "marker" ELSE IF HitSprite(p) THEN "sprite" ELSE "none"

\* Math.sqrt(deltaX * deltaX + deltaY * deltaY) > 5
FartherThan(p, q, limit) ==
  (p[1] - q[1]) * (p[1] - q[1]) + (p[2] - q[2]) * (p[2] - q[2]) > limit * limit

\* Mutant: onDragMove moves the content on every move of a drag.
DraggedTo_NoThreshold(p) ==
  IF ~isDragging \/ IsNull(dragStart) \/ IsNull(contentStartPos) \/ IsNull(contentContainer)
  THEN contentContainer
  ELSE Some([x |-> RAdd(Val(contentStartPos).x, Num(p[1] - Val(dragStart)[1])),
             y |-> RAdd(Val(contentStartPos).y, Num(p[2] - Val(dragStart)[2]))])

\* The content container's position after onDragMove(event at p).
DraggedTo(p) ==
  IF ~isDragging \/ IsNull(dragStart) \/ IsNull(contentStartPos) \/ IsNull(contentContainer)
  THEN contentContainer
  ELSE LET deltaX == p[1] - Val(dragStart)[1]
           deltaY == p[2] - Val(dragStart)[2]
       IN  IF FartherThan(p, Val(dragStart), CLICK_THRESHOLD)
           THEN Some([x |-> RAdd(Val(contentStartPos).x, Num(deltaX)),
                      y |-> RAdd(Val(contentStartPos).y, Num(deltaY))])
           ELSE contentContainer

\* pointerdown at p: the sprite's handler of enableClick, then onDragStart
\* on the content container.
pointerDown(p) ==
  /\ ~pressed
  /\ gestures < MaxGestures
  /\ gestures' = gestures + 1
  /\ LET target == HitTest(p)
     IN  /\ clickStartPosition' =
              IF target = "sprite" /\ clickEnabled THEN Some(p) ELSE clickStartPosition
         /\ IF target # "none" /\ ~IsNull(contentContainer)
            THEN /\ isDragging' = TRUE
                 /\ dragStart' = Some(p)
                 /\ contentStartPos' = contentContainer
            ELSE UNCHANGED dragVars
         /\ gesture' = Some([down |-> p, at |-> p, target |-> target, exceeded |-> FALSE,
                             offset |-> contentContainer, armed |-> clickEnabled])
  /\ pressed' = TRUE
  /\ lastOp' = Op("pointerdown")
  /\ UNCHANGED <<pc, sceneVars, markerVars, clickEnabled>>
  /\ UNCHANGED hostVars

\* pointermove at p: onDragMove on the stage, when the pointer is over it.
pointerMove(p) ==
  /\ contentContainer' = IF HitTest(p) # "none" THEN DraggedTo(p) ELSE contentContainer
  /\ gesture' =
       IF IsNull(gesture) THEN gesture
       ELSE Some([Val(gesture) EXCEPT
                    !.at = p,
                    !.exceeded = @ \/ FartherThan(p, Val(gesture).down, CLICK_THRESHOLD)])
  /\ lastOp' = Op("pointermove")
  /\ UNCHANGED <<pc, pixiApp, markerContainer, floorPlanSprite, markerVars, dragVars,
                 clickStartPosition, pressed, gestures, clickEnabled>>
  /\ UNCHANGED hostVars

\* Mutant: a pointer-up exactly at the threshold distance is not a click.
ClickEmits_Strict(p) ==
  IF IsNull(clickStartPosition) THEN <<>>
  ELSE IF (p[1] - Val(clickStartPosition)[1]) * (p[1] - Val(clickStartPosition)[1])
            + (p[2] - Val(clickStartPosition)[2]) * (p[2] - Val(clickStartPosition)[2])
            >= CLICK_THRESHOLD * CLICK_THRESHOLD THEN <<>>
  ELSE LET coords == screenToFloorPlanCoords(Num(p[1]), Num(p[2]))
       IN  IF IsNull(coords) THEN <<>> ELSE <<Val(coords)>>

\* What the sprite's pointerup handler passes to the callback: a sequence of
\* the coordinates of each invocation.
ClickEmits(p) ==
  IF IsNull(clickStartPosition) THEN <<>>
  ELSE IF FartherThan(p, Val(clickStartPosition), CLICK_THRESHOLD) THEN <<>>
  ELSE LET coords == screenToFloorPlanCoords(Num(p[1]), Num(p[2]))
       IN  IF IsNull(coords) THEN <<>> ELSE <<Val(coords)>>

\* pointerup where the pointer is: the sprite's handler of enableClick when
\* the pointer is over the sprite, then onDragEnd on the stage (pointerup,
\* or pointerupoutside when nothing is under the pointer).
pointerUp ==
  /\ pressed
  /\ LET p == Val(gesture).at
         target == HitTest(p)
         onSprite == target = "sprite" /\ clickEnabled
     IN  /\ clickStartPosition' = IF onSprite THEN Null ELSE clickStartPosition
         /\ lastOp' = [op |-> "pointerup", at |-> p, target |-> target,
                       emitted |-> IF onSprite THEN ClickEmits(p) ELSE <<>>,
                       gesture |-> Val(gesture)]
  /\ IF IsNull(contentContainer)
     THEN UNCHANGED dragVars
     ELSE /\ isDragging' = FALSE
          /\ dragStart' = Null
          /\ contentStartPos' = Null
  /\ pressed' = FALSE
  /\ gesture' = Null
  /\ UNCHANGED <<pc, sceneVars, markerVars, clickEnabled, gestures>>
  /\ UNCHANGED hostVars

(***************************************************************************)
(* The task store (src/src/stores/taskStore.ts).  Each operation is taken  *)
(* at the step after its last await, where it reads the store's state and  *)
(* sets the new one; the database holds the documents of store.tasks.      *)
(***************************************************************************)
\* new Set([...this.tasksNeedingRepaint, id])
Marked_Forgets(repaintSet, id) == repaintSet

Marked(repaintSet, id) == repaintSet \cup {id}

\* { ...t, ...updates }
Merged(t, updates) ==
  [f \in DOMAIN t |-> IF f \in DOMAIN updates THEN updates[f] ELSE t[f]]

\* this.tasks.map(t => t.id === taskId ? { ...t, checklist: updatedChecklist } : t)
WithChecklist(ts, taskId, updatedChecklist) ==
  [i \in 1..Len(ts) |->
     IF ts[i].id = taskId THEN [ts[i] EXCEPT !.checklist = updatedChecklist] ELSE ts[i]]

\* task.checklist of the document that findOne(taskId) found.
ChecklistOf(taskId) == Val(Find(store.tasks, taskId)).checklist

\* Mutant: a failed operation empties the task list.
Failed_DropsTasks(st) == [st EXCEPT !.tasks = <<>>, !.isLoading = FALSE]

\* this.setState({ error: ..., isLoading: false }): the state after the
\* operation found no task or caught an error.
Failed(st) == [st EXCEPT !.isLoading = FALSE]

\* The step of a store operation on the task id: the new tasks and repaint
\* set when it went through, no change of them when the task was not found.
\* Every operation but createTask sets isLoading to false with them.
StoreStep(name, id, found, newTasks, newRepaintSet) ==
  /\ mutations < MaxMutations
  /\ mutations' = mutations + 1
  /\ store' = IF found
              THEN [store EXCEPT !.tasks = newTasks,
                                 !.tasksNeedingRepaint = newRepaintSet,
                                 !.isLoading = name = "createTask" /\ @]
              ELSE Failed(store)
  /\ lastOp' = [op |-> name, id |-> id, ok |-> found]
  /\ UNCHANGED <<view, unpainted, app, rendererVars>>

\* createTask: the new document has a new id, the coordinates it is created
\* at, and the items of the template, all not_started.
createTask(id) ==
  /\ id \notin TaskIdsOf(store.tasks)
  /\ LET taskWithTemplate ==
           [id |-> id, coordinates |-> CoordinatesOf(id),
            checklist |-> <<Item("not_started")>>]
     IN  StoreStep("createTask", id, TRUE, Append(store.tasks, taskWithTemplate),
                   Marked(store.tasksNeedingRepaint, id))

updateTask(id, updates) ==
  StoreStep("updateTask", id, id \in TaskIdsOf(store.tasks),
            [i \in 1..Len(store.tasks) |->
               IF store.tasks[i].id = id THEN Merged(store.tasks[i], updates)
               ELSE store.tasks[i]],
            Marked(store.tasksNeedingRepaint, id))

deleteTask(id) ==
  StoreStep("deleteTask", id, id \in TaskIdsOf(store.tasks),
            SelectSeq(store.tasks, LAMBDA t : t.id # id),
            Marked(store.tasksNeedingRepaint, id))

updateChecklistItemStatus(taskId, itemId, newStatus) ==
  LET found == taskId \in TaskIdsOf(store.tasks)
      checklist == IF found THEN ChecklistOf(taskId) ELSE <<>>
      updatedChecklist ==
        [i \in 1..Len(checklist) |->
           IF i = itemId THEN [checklist[i] EXCEPT !.status = newStatus] ELSE checklist[i]]
  IN  StoreStep("updateChecklistItemStatus", taskId, found,
                WithChecklist(store.tasks, taskId, updatedChecklist),
                Marked(store.tasksNeedingRepaint, taskId))

addChecklistItem(taskId, itemText) ==
  LET found == taskId \in TaskIdsOf(store.tasks)
      checklist == IF found THEN ChecklistOf(taskId) ELSE <<>>
      newItem == [status |-> "not_started", text |-> itemText]
      updatedChecklist == Append(checklist, newItem)
  IN  /\ Len(updatedChecklist) \in ItemSlots
      /\ StoreStep("addChecklistItem", taskId, found,
                   WithChecklist(store.tasks, taskId, updatedChecklist),
                   Marked(store.tasksNeedingRepaint, taskId))

deleteChecklistItem(taskId, checklistItemId) ==
  LET found == taskId \in TaskIdsOf(store.tasks)
      checklist == IF found THEN ChecklistOf(taskId) ELSE <<>>
      kept == {i \in 1..Len(checklist) : i # checklistItemId}
      updatedChecklist ==
        [i \in 1..Cardinality(kept) |->
           checklist[IF i < checklistItemId THEN i ELSE i + 1]]
  IN  StoreStep("deleteChecklistItem", taskId, found,
                WithChecklist(store.tasks, taskId, updatedChecklist),
                Marked(store.tasksNeedingRepaint, taskId))

\* updateChecklistItemText sets the tasks only: the repaint set stays.
updateChecklistItemText(taskId, checklistItemId, newText) ==
  LET found == taskId \in TaskIdsOf(store.tasks)
      checklist == IF found THEN ChecklistOf(taskId) ELSE <<>>
      updatedChecklist ==
        [i \in 1..Len(checklist) |->
           IF i = checklistItemId THEN [checklist[i] EXCEPT !.text = newText]
           ELSE checklist[i]]
  IN  StoreStep("updateChecklistItemText", taskId, found,
                WithChecklist(store.tasks, taskId, updatedChecklist),
                store.tasksNeedingRepaint)

\* The store's operations that change a task.
Mutations ==
  {"createTask", "updateTask", "deleteTask", "updateChecklistItemStatus",
   "addChecklistItem", "deleteChecklistItem", "updateChecklistItemText"}

\* The operations that start with setState({ isLoading: true, error: null }).
LoadingOperations ==
  {"updateTask", "deleteTask", "updateChecklistItemStatus", "addChecklistItem",
   "deleteChecklistItem", "updateChecklistItemText"}

\* A call with no user session: every operation returns at once, with at
\* most the error set.
callWithoutSession(name, id) ==
  /\ mutations < MaxMutations
  /\ mutations' = mutations + 1
  /\ lastOp' = [op |-> "failed", name |-> name, id |-> id, cause |-> "no session"]
  /\ UNCHANGED <<store, view, unpainted, app, rendererVars>>

\* A call that is going to fail, up to its first await: the operations with
\* a loading flag set it.
callMutation(name, id) ==
  /\ mutations < MaxMutations
  /\ mutations' = mutations + 1
  /\ [name |-> name, id |-> id] \notin app.calls
  /\ app' = [app EXCEPT !.calls = @ \cup {[name |-> name, id |-> id]}]
  /\ store' = [store EXCEPT !.isLoading = @ \/ name \in LoadingOperations]
  /\ lastOp' = [op |-> "call", name |-> name, id |-> id]
  /\ UNCHANGED <<view, unpainted, rendererVars>>

\* The call settles with the database operation throwing: createTask
\* rejects and sets nothing, the others catch the error.
mutationThrows(call) ==
  /\ call \in app.calls
  /\ app' = [app EXCEPT !.calls = @ \ {call}]
  /\ store' = IF call.name = "createTask" THEN store ELSE Failed(store)
  /\ lastOp' = [op |-> "failed", name |-> call.name, id |-> call.id, cause |-> "threw"]
  /\ UNCHANGED <<view, unpainted, mutations, rendererVars>>

\* The call settles with findOne(id) finding no task.
mutationFindsNoTask(call) ==
  /\ call \in app.calls
  /\ call.name # "createTask"
  /\ call.id \notin TaskIdsOf(store.tasks)
  /\ app' = [app EXCEPT !.calls = @ \ {call}]
  /\ store' = Failed(store)
  /\ lastOp' = [op |-> "failed", name |-> call.name, id |-> call.id, cause |-> "not found"]
  /\ UNCHANGED <<view, unpainted, mutations, rendererVars>>

markTaskForRepaint(taskId) ==
  /\ mutations < MaxMutations
  /\ mutations' = mutations + 1
  /\ store' = [store EXCEPT !.tasksNeedingRepaint = Marked(@, taskId)]
  /\ lastOp' = [op |-> "markTaskForRepaint", id |-> taskId]
  /\ UNCHANGED <<view, unpainted, app, rendererVars>>

\* clearRepaintMarkers on its own: no repaint takes the ids it removes.
clearRepaintMarkers ==
  /\ store.tasksNeedingRepaint # {}
  /\ store' = [store EXCEPT !.tasksNeedingRepaint = {}]
  /\ unpainted' = unpainted \cup store.tasksNeedingRepaint
  /\ lastOp' = Op("clearRepaintMarkers")
  /\ UNCHANGED <<view, mutations, app, rendererVars>>

(***************************************************************************)
(* The Dashboard's handlers (src/src/components/Dashboard.tsx), with a     *)
(* user session.  Each acts on a task and an item that the list shows.     *)
(***************************************************************************)
\* const statusCycle = ['not_started', 'in_progress', 'done']
statusCycle == <<"not_started", "in_progress", "done">>

\* seq.indexOf(e), counted from 0, and -1 when e is not in seq.
IndexOf(seq, e) ==
  IF \E i \in 1..Len(seq) : seq[i] = e
  THEN (CHOOSE i \in 1..Len(seq) : seq[i] = e /\ \A j \in 1..(i - 1) : seq[j] # e) - 1
  ELSE -1

\* Mutant: the toggle goes through the five statuses.
nextStatus_FiveCycle(currentStatus) ==
  LET cycle == <<"not_started", "in_progress", "blocked", "final_check_awaiting", "done">>
  IN  cycle[((IndexOf(cycle, currentStatus) + 1) % Len(cycle)) + 1]

\* statusCycle[(currentIndex + 1) % statusCycle.length]
nextStatus(currentStatus) ==
  statusCycle[((IndexOf(statusCycle, currentStatus) + 1) % Len(statusCycle)) + 1]

\* The item itemId of the task taskId is on the list.
Shown(taskId, itemId) ==
  /\ taskId \in TaskIdsOf(store.tasks)
  /\ itemId \in 1..Len(ChecklistOf(taskId))

handleTaskCreate(id) == createTask(id)

handleChecklistStatusToggle(taskId, itemId) ==
  /\ Shown(taskId, itemId)
  /\ updateChecklistItemStatus(taskId, itemId, nextStatus(ChecklistOf(taskId)[itemId].status))

handleDeleteChecklistItem(taskId, itemId) ==
  /\ Shown(taskId, itemId)
  /\ deleteChecklistItem(taskId, itemId)

handleAddChecklistItem(taskId, newItemText) ==
  /\ taskId \in TaskIdsOf(store.tasks)
  /\ addChecklistItem(taskId, newItemText)

handleUpdateChecklistItemText(taskId, itemId, newText) ==
  /\ Shown(taskId, itemId)
  /\ updateChecklistItemText(taskId, itemId, newText)

(***************************************************************************)
(* Sessions: login and logout of the auth store (src/src/stores/           *)
(* authStore.ts) over the task store it resets, useTaskStore               *)
(* (src/unnamed/part_015).  Each user has a database of their own; a call   *)
(* that awaits the database is in app.calls until it resumes.  The order   *)
(* in which two pending calls resume is not fixed by the code.             *)
(***************************************************************************)
\* initializeUser(userName): createUserDatabase, then set({ userSession }).
login(user) ==
  /\ IsNull(app.userSession)
  /\ app' = [app EXCEPT !.userSession = Some(user)]
  /\ lastOp' = [op |-> "login", user |-> user]
  /\ UNCHANGED <<store, view, unpainted, mutations, rendererVars>>

\* logout, up to await session.database.close().
logout ==
  /\ ~IsNull(app.userSession)
  /\ \A call \in app.calls : call.name # "logout"
  /\ app' = [app EXCEPT !.calls = @ \cup {[name |-> "logout", user |-> Val(app.userSession)]}]
  /\ lastOp' = Op("logout")
  /\ UNCHANGED <<store, view, unpainted, mutations, rendererVars>>

\* reset()
reset(st) == [st EXCEPT !.tasks = <<>>, !.tasksLoaded = FALSE, !.tasksNeedingRepaint = {}]

\* logout, from the close of the database on: the task store is reset and
\* the session set to null.  The closed database ends its subscriptions.
logoutResumed(call) ==
  /\ call \in app.calls
  /\ call.name = "logout"
  /\ store' = reset(store)
  /\ app' = [app EXCEPT !.calls = @ \ {call}, !.userSession = Null,
                        !.subscriptions = @ \ {call.user},
                        !.emissions = @ \ {call.user},
                        !.tasksChanged = TRUE]
  /\ lastOp' = [op |-> "logoutResumed", user |-> call.user]
  /\ UNCHANGED <<view, unpainted, mutations, rendererVars>>

\* loadAllTasks(userSession), up to await find().exec().
useTaskStore_loadAllTasks ==
  /\ ~IsNull(app.userSession)
  /\ ~store.tasksLoaded
  /\ [name |-> "loadAllTasks", user |-> Val(app.userSession)] \notin app.calls
  /\ app' = [app EXCEPT !.calls = @ \cup {[name |-> "loadAllTasks", user |-> Val(app.userSession)]}]
  /\ lastOp' = Op("loadAllTasks")
  /\ UNCHANGED <<store, view, unpainted, mutations, rendererVars>>

\* loadAllTasks with the documents found: they are set as the tasks, and the
\* query is subscribed to when the database is still open; the query will
\* emit its present result to the new subscriber.
useTaskStore_loadAllTasksResumed(call) ==
  /\ call \in app.calls
  /\ call.name = "loadAllTasks"
  /\ store' = [store EXCEPT !.tasks = app.databases[call.user], !.tasksLoaded = TRUE]
  /\ app' = [app EXCEPT !.calls = @ \ {call},
                        !.subscriptions =
                          IF app.userSession = Some(call.user) THEN @ \cup {call.user} ELSE @,
                        !.emissions =
                          IF app.userSession = Some(call.user) THEN @ \cup {call.user} ELSE @,
                        !.tasksChanged = TRUE]
  /\ lastOp' = [op |-> "loadAllTasksResumed", user |-> call.user]
  /\ UNCHANGED <<view, unpainted, mutations, rendererVars>>

\* The subscription on the user's query delivers the documents of the
\* database, once after subscribing and once after each change: a new tasks
\* array is set.
tasksEmitted(user) ==
  /\ user \in app.subscriptions
  /\ user \in app.emissions
  /\ store' = [store EXCEPT !.tasks = app.databases[user]]
  /\ app' = [app EXCEPT !.emissions = @ \ {user}, !.tasksChanged = TRUE]
  /\ lastOp' = [op |-> "tasksEmitted", user |-> user]
  /\ UNCHANGED <<view, unpainted, mutations, rendererVars>>

\* createTask(taskData, userSession), up to await insert(taskWithTemplate):
\* the document carries the id of the user.
useTaskStore_createTask(id) ==
  /\ mutations < MaxMutations
  /\ mutations' = mutations + 1
  /\ ~IsNull(app.userSession)
  /\ LET user == Val(app.userSession)
     IN  /\ id \notin TaskIdsOf(app.databases[user])
         /\ \A call \in app.calls : call.name = "createTask" => call.id # id
         /\ app' = [app EXCEPT !.calls = @ \cup {[name |-> "createTask", user |-> user, id |-> id]}]
  /\ lastOp' = Op("createTask")
  /\ UNCHANGED <<store, view, unpainted, rendererVars>>

\* createTask with the document inserted: it is appended to the tasks and
\* marked for repaint.
useTaskStore_createTaskResumed(call) ==
  /\ call \in app.calls
  /\ call.name = "createTask"
  /\ LET taskWithTemplate ==
           [id |-> call.id, userId |-> call.user, coordinates |-> CoordinatesOf(call.id),
            checklist |-> <<Item("not_started")>>]
     IN  /\ app' = [app EXCEPT !.calls = @ \ {call},
                               !.databases[call.user] = Append(@, taskWithTemplate),
                               !.emissions = @ \cup ({call.user} \cap app.subscriptions),
                               !.tasksChanged = TRUE]
         /\ store' = [store EXCEPT !.tasks = Append(@, taskWithTemplate),
                                   !.tasksNeedingRepaint = Marked(@, call.id)]
  /\ lastOp' = [op |-> "createTaskResumed", user |-> call.user]
  /\ UNCHANGED <<view, unpainted, mutations, rendererVars>>

\* A call on a database that has been closed rejects: nothing is set.
callRejected(call) ==
  /\ call \in app.calls
  /\ call.name # "logout"
  /\ app.userSession # Some(call.user)
  /\ app' = [app EXCEPT !.calls = @ \ {call}]
  /\ lastOp' = [op |-> "callRejected", user |-> call.user]
  /\ UNCHANGED <<store, view, unpainted, mutations, rendererVars>>

(***************************************************************************)
(* Components on useReactiveComponent (src/src/hooks/                      *)
(* useReactiveComponent.ts): the Dashboard and, as its child, the          *)
(* FloorPlanView of part_008.  The stores emit nothing of their own here.  *)
(***************************************************************************)
\* A render of the component: the update that asked for it is consumed and
\* its effects are scheduled.
Rendered(c) ==
  [c EXCEPT !.renders = @ + 1, !.renderPending = FALSE, !.effectPending = TRUE]

\* The subscription effect, which has no dependency array and runs after
\* every render: when(observable, handler) subscribes once more to each
\* observable, and each BehaviorSubject hands its value to the new
\* subscriber at once, whose handler sets state and calls forceUpdate().
Subscribed(c) ==
  [c EXCEPT !.effectPending = FALSE, !.renderPending = TRUE,
            !.subscriptions = [o \in DOMAIN @ |-> @[o] + 1]]

\* The Dashboard renders, and FloorPlanView with it.
DashboardRender ==
  /\ app.Dashboard.renders = 0 \/ app.Dashboard.renderPending
  /\ ~app.Dashboard.effectPending
  /\ ~app.FloorPlanView.effectPending
  /\ app.Dashboard.renders < MaxRenders
  /\ app.FloorPlanView.renders < MaxRenders
  /\ app' = [app EXCEPT !.Dashboard = Rendered(@), !.FloorPlanView = Rendered(@)]
  /\ lastOp' = Op("DashboardRender")
  /\ UNCHANGED <<store, view, unpainted, mutations, rendererVars>>

\* FloorPlanView renders on an update of its own.
FloorPlanViewRender ==
  /\ app.FloorPlanView.renderPending
  /\ ~app.FloorPlanView.effectPending
  /\ app.FloorPlanView.renders < MaxRenders
  /\ app' = [app EXCEPT !.FloorPlanView = Rendered(@)]
  /\ lastOp' = Op("FloorPlanViewRender")
  /\ UNCHANGED <<store, view, unpainted, mutations, rendererVars>>

DashboardEffect ==
  /\ app.Dashboard.effectPending
  /\ app' = [app EXCEPT !.Dashboard = Subscribed(@)]
  /\ lastOp' = Op("DashboardEffect")
  /\ UNCHANGED <<store, view, unpainted, mutations, rendererVars>>

FloorPlanViewEffect ==
  /\ app.FloorPlanView.effectPending
  /\ app' = [app EXCEPT !.FloorPlanView = Subscribed(@)]
  /\ lastOp' = Op("FloorPlanViewEffect")
  /\ UNCHANGED <<store, view, unpainted, mutations, rendererVars>>

(***************************************************************************)
(* The init effect of the view: each run creates a renderer and a view     *)
(* element behind a zero-delay timer; the cleanup works on engineRef only.  *)
(***************************************************************************)
InitEffect(phase) ==
  [phase |-> phase, cleaned |-> FALSE, destroyed |-> FALSE,
   viewAttached |-> FALSE, resizeListener |-> FALSE]

\* The effect runs at mount and again when stableOnTaskCreate changes, after
\* the cleanup of its previous run; throttler(...) of this render holds no
\* handle yet and sets the timer.
initEffect ==
  LET effects == app.initEffects IN
  /\ Len(effects) < MaxEffects
  /\ effects # <<>> => effects[Len(effects)].cleaned
  /\ app' = [app EXCEPT !.initEffects = Append(@, InitEffect("scheduled"))]
  /\ lastOp' = Op("initEffect")
  /\ UNCHANGED <<store, view, unpainted, mutations, rendererVars>>

\* The timer fires: initRenderer creates the renderer and the view element
\* and waits for renderer.initialize(view).
initRenderer(k) ==
  /\ k \in DOMAIN app.initEffects
  /\ app.initEffects[k].phase = "scheduled"
  /\ app' = [app EXCEPT !.initEffects[k].phase = "initializing"]
  /\ lastOp' = [op |-> "initRenderer", effect |-> k]
  /\ UNCHANGED <<store, view, unpainted, mutations, rendererVars>>

\* initialize settles: on success the view element is appended to the mount
\* element, the resize listener is added and engineRef is set; a rejection
\* is caught and logged.
initRendererResumed(k, initialized) ==
  /\ k \in DOMAIN app.initEffects
  /\ app.initEffects[k].phase = "initializing"
  /\ app' = IF initialized
              THEN [app EXCEPT !.initEffects[k].phase = "ready",
                               !.initEffects[k].viewAttached = TRUE,
                               !.initEffects[k].resizeListener = TRUE,
                               !.engineRef = Some(k)]
              ELSE [app EXCEPT !.initEffects[k].phase = "failed"]
  /\ lastOp' = [op |-> "initRendererResumed", effect |-> k, initialized |-> initialized]
  /\ UNCHANGED <<store, view, unpainted, mutations, rendererVars>>

TornDown(effect) ==
  [effect EXCEPT !.resizeListener = FALSE, !.viewAttached = FALSE, !.destroyed = TRUE]

\* The cleanup of the latest run (unmount or dependency change) tears down
\* what engineRef holds, if it holds anything.
initCleanup ==
  LET effects == app.initEffects
      k       == Len(effects) IN
  /\ effects # <<>>
  /\ ~effects[k].cleaned
  /\ app' = IF IsNull(app.engineRef)
              THEN [app EXCEPT !.initEffects[k].cleaned = TRUE]
              ELSE [app EXCEPT
                      !.initEffects =
                        [j \in DOMAIN @ |->
                           LET e == IF j = Val(app.engineRef) THEN TornDown(@[j]) ELSE @[j]
                           IN  IF j = k THEN [e EXCEPT !.cleaned = TRUE] ELSE e],
                      !.engineRef = Null]
  /\ lastOp' = [op |-> "initCleanup", effect |-> k]
  /\ UNCHANGED <<store, view, unpainted, mutations, rendererVars>>

NextMount ==
  \/ initEffect
  \/ \E k \in 1..MaxEffects : initRenderer(k)
  \/ \E k \in 1..MaxEffects, initialized \in BOOLEAN : initRendererResumed(k, initialized)
  \/ initCleanup

SpecMount == Init /\ [][NextMount]_vars

(***************************************************************************)
(* The view (FloorPlanView).  A render reads the store's tasks and repaint *)
(* set and the engineReady state into the values its effects close over;   *)
(* the effects whose dependencies changed run later, in the order they are *)
(* declared, and before the next render.  Store operations may complete in *)
(* between.                                                                *)
(***************************************************************************)
\* engineRef.current?.renderer: set by initRenderer right after enableClick.
isRendererReady == clickEnabled

\* The ids of a Set, as repaintChangedMarkers iterates them.
InOrder(ids) == CHOOSE c \in ChangedSets : {c[i] : i \in 1..Len(c)} = ids

viewRender ==
  LET tasksChanged == store.tasks # view.tasks
      repaintSetChanged == store.tasksNeedingRepaint # view.tasksNeedingRepaint
      engineReadyChanged == isRendererReady # view.engineReady
  IN  /\ view.effects = <<>>
      /\ tasksChanged \/ repaintSetChanged \/ engineReadyChanged
      /\ view' = [tasks |-> store.tasks,
                  tasksNeedingRepaint |-> store.tasksNeedingRepaint,
                  engineReady |-> isRendererReady,
                  effects |->
                    (IF tasksChanged \/ engineReadyChanged THEN <<"renderAll">> ELSE <<>>)
                    \o (IF tasksChanged \/ repaintSetChanged THEN <<"repaint">> ELSE <<>>)]
      /\ lastOp' = Op("render")
      /\ UNCHANGED <<store, unpainted, mutations, app, rendererVars>>

\* The effect on [engineReady, userSession, tasks].
renderAllEffect ==
  /\ view.effects # <<>>
  /\ Head(view.effects) = "renderAll"
  /\ view' = [view EXCEPT !.effects = Tail(@)]
  /\ IF view.engineReady /\ isRendererReady /\ Len(view.tasks) > 0
     THEN renderAllMarkers(view.tasks)
     ELSE /\ lastOp' = Op("renderAllEffect")
          /\ UNCHANGED rendererVars
  /\ UNCHANGED <<store, unpainted, mutations, app>>

\* The effect on [tasksNeedingRepaint, tasks]: it repaints the ids the render
\* read, then clearRepaintMarkers() empties the store's set as it is now.
repaintEffect ==
  /\ view.effects # <<>>
  /\ Head(view.effects) = "repaint"
  /\ view' = [view EXCEPT !.effects = Tail(@)]
  /\ IF isRendererReady /\ view.tasksNeedingRepaint # {}
     THEN /\ repaintChangedMarkers(InOrder(view.tasksNeedingRepaint), view.tasks)
          /\ store' = [store EXCEPT !.tasksNeedingRepaint = {}]
          /\ unpainted' = unpainted \cup (store.tasksNeedingRepaint \ view.tasksNeedingRepaint)
     ELSE /\ lastOp' = Op("repaintEffect")
          /\ UNCHANGED <<store, unpainted, rendererVars>>
  /\ UNCHANGED <<mutations, app>>

(***************************************************************************)
(* The early view (src/src/components/FloorPlanView.tsx) over useTaskStore: *)
(* isLoading is true until initRenderer has settled, loadAllTasks is called *)
(* once a session is there and isLoading is false, and the render-markers   *)
(* effect depends on the tasks array alone.                                 *)
(***************************************************************************)
\* Mount: the first render and the start of the init effect.
earlyMount ==
  /\ ~app.earlyView.mounted
  /\ app' = [app EXCEPT
               !.tasksChanged = FALSE,
               !.earlyView =
                 [mounted |-> TRUE, isLoading |-> TRUE, engineRef |-> Null,
                  renderers |-> 1, pendingInits |-> {1},
                  rendered |-> [userSession |-> app.userSession, isLoading |-> TRUE,
                                tasks |-> store.tasks],
                  effects |-> <<"loadTasks", "renderMarkers">>, drawn |-> Null]]
  /\ lastOp' = Op("earlyMount")
  /\ UNCHANGED <<store, view, unpainted, mutations, rendererVars>>

\* A dependency of the init effect has changed: its cleanup destroys the
\* renderer in engineRef and the effect starts initRenderer again.
earlyInitEffectAgain ==
  /\ app.earlyView.mounted
  /\ app.earlyView.effects = <<>>
  /\ app.earlyView.renderers < MaxEffects
  /\ app' = [app EXCEPT !.earlyView.engineRef = Null,
                        !.earlyView.renderers = @ + 1,
                        !.earlyView.pendingInits = @ \cup {app.earlyView.renderers + 1}]
  /\ lastOp' = Op("earlyInitEffectAgain")
  /\ UNCHANGED <<store, view, unpainted, mutations, rendererVars>>

\* initRenderer after await renderer.initialize(mountElement).
earlyInitRendererResumed(k, initialized) ==
  /\ k \in app.earlyView.pendingInits
  /\ app' = [app EXCEPT !.earlyView.pendingInits = @ \ {k},
                        !.earlyView.isLoading = FALSE,
                        !.earlyView.engineRef = IF initialized THEN Some(k) ELSE @]
  /\ lastOp' = [op |-> "earlyInitRendererResumed", renderer |-> k, initialized |-> initialized]
  /\ UNCHANGED <<store, view, unpainted, mutations, rendererVars>>

\* The effects a render schedules, by their dependency arrays.
EarlyEffects(sessionChanged, isLoadingChanged, tasksChanged) ==
  (IF sessionChanged \/ isLoadingChanged THEN <<"loadTasks">> ELSE <<>>)
  \o (IF tasksChanged THEN <<"renderMarkers">> ELSE <<>>)

\* A render after a change of the stores or of isLoading.
earlyRender ==
  LET sessionChanged == app.earlyView.rendered.userSession # app.userSession
      isLoadingChanged == app.earlyView.rendered.isLoading # app.earlyView.isLoading
  IN  /\ app.earlyView.mounted
      /\ app.earlyView.effects = <<>>
      /\ sessionChanged \/ isLoadingChanged \/ app.tasksChanged
      /\ app' = [app EXCEPT
                   !.tasksChanged = FALSE,
                   !.earlyView.rendered =
                     [userSession |-> app.userSession, isLoading |-> app.earlyView.isLoading,
                      tasks |-> store.tasks],
                   !.earlyView.effects =
                     EarlyEffects(sessionChanged, isLoadingChanged, app.tasksChanged)]
      /\ lastOp' = Op("earlyRender")
      /\ UNCHANGED <<store, view, unpainted, mutations, rendererVars>>

\* The effect on [userSession, loadAllTasks, isLoading]; loadAllTasks returns
\* at once when the tasks are loaded.
earlyLoadTasksEffect ==
  LET rendered == app.earlyView.rendered
      loads == /\ ~IsNull(rendered.userSession)
               /\ ~rendered.isLoading
               /\ ~store.tasksLoaded
  IN  /\ app.earlyView.effects # <<>>
      /\ Head(app.earlyView.effects) = "loadTasks"
      /\ app' = [app EXCEPT
                   !.earlyView.effects = Tail(@),
                   !.calls = IF loads
                               THEN @ \cup {[name |-> "loadAllTasks",
                                             user |-> Val(rendered.userSession)]}
                               ELSE @]
      /\ lastOp' = [op |-> "earlyLoadTasksEffect", loads |-> loads]
      /\ UNCHANGED <<store, view, unpainted, mutations, rendererVars>>

\* The effect on [tasks].
earlyRenderMarkersEffect ==
  LET rendered == app.earlyView.rendered
      renders == ~IsNull(app.earlyView.engineRef) /\ Len(rendered.tasks) > 0
  IN  /\ app.earlyView.effects # <<>>
      /\ Head(app.earlyView.effects) = "renderMarkers"
      /\ app' = [app EXCEPT
                   !.earlyView.effects = Tail(@),
                   !.earlyView.drawn =
                     IF renders
                       THEN Some([renderer |-> Val(app.earlyView.engineRef),
                                  tasks |-> rendered.tasks])
                       ELSE @]
      /\ lastOp' = [op |-> "earlyRenderMarkersEffect", renders |-> renders]
      /\ UNCHANGED <<store, view, unpainted, mutations, rendererVars>>

(***************************************************************************)
(* The reactive task store: a mutation writes to the RxDB collection and,  *)
(* after the await, adds the id to the repaint set; the tasks come from    *)
(* the subscription on the collection's query, which emits on its own.     *)
(***************************************************************************)
\* loadAllTasks -> setupReactiveTasksQuery: subscribes to find().$.
setupReactiveTasksQuery ==
  /\ ~app.querySubscribed
  /\ app' = [app EXCEPT !.querySubscribed = TRUE]
  /\ lastOp' = Op("setupReactiveTasksQuery")
  /\ UNCHANGED <<store, view, unpainted, mutations, rendererVars>>

\* The query emits the documents of the collection: tasksSubject.next,
\* tasksLoadedSubject.next(true).
queryEmits ==
  /\ app.querySubscribed
  /\ ~store.tasksLoaded \/ store.tasks # app.collection
  /\ store' = [store EXCEPT !.tasks = app.collection, !.tasksLoaded = TRUE]
  /\ lastOp' = Op("queryEmits")
  /\ UNCHANGED <<view, unpainted, mutations, app, rendererVars>>

\* A mutation up to the await of the write to the collection.
ReactiveCall(name, id, documents) ==
  /\ mutations < MaxMutations
  /\ mutations' = mutations + 1
  /\ app' = [app EXCEPT !.collection = documents,
                        !.calls = @ \cup {[name |-> name, id |-> id]}]
  /\ store' = [store EXCEPT !.isLoading = name # "createTask" \/ @]
  /\ lastOp' = [op |-> "called", name |-> name, id |-> id]
  /\ UNCHANGED <<view, unpainted, rendererVars>>

reactiveCreateTask(id) ==
  /\ id \notin TaskIdsOf(app.collection)
  /\ LET taskWithTemplate ==
           [id |-> id, coordinates |-> CoordinatesOf(id),
            checklist |-> <<Item("not_started")>>]
     IN  ReactiveCall("createTask", id, Append(app.collection, taskWithTemplate))

reactiveUpdateTask(id, updates) ==
  /\ id \in TaskIdsOf(app.collection)
  /\ ReactiveCall("updateTask", id,
                  [i \in 1..Len(app.collection) |->
                     IF app.collection[i].id = id THEN Merged(app.collection[i], updates)
                     ELSE app.collection[i]])

reactiveDeleteTask(id) ==
  /\ id \in TaskIdsOf(app.collection)
  /\ ReactiveCall("deleteTask", id,
                  SelectSeq(app.collection, LAMBDA task : task.id # id))

\* After the await: tasksNeedingRepaintSubject.next(new Set([..., id])).
reactiveMutationResumed(call) ==
  /\ call \in app.calls
  /\ call.name \in {"createTask", "updateTask", "deleteTask"}
  /\ app' = [app EXCEPT !.calls = @ \ {call}]
  /\ store' = [store EXCEPT !.tasksNeedingRepaint = Marked(@, call.id),
                            !.isLoading = call.name = "createTask" /\ @]
  /\ lastOp' = [op |-> "resumed", name |-> call.name, id |-> call.id]
  /\ UNCHANGED <<view, unpainted, mutations, rendererVars>>

(***************************************************************************)
(* Specifications.                                                         *)
(***************************************************************************)
\* The view initializes each renderer on an element that is not yet in the
\* document (part_009 lines 1154-1160).
Lifecycle ==
  \/ \E size \in {<<0, 0>>} : initialize(size)
  \/ initializeResumed
  \/ \E texture \in Textures : loadFloorPlan(texture)
  \/ loadFloorPlanFailed
  \/ enableClick

Pointer(positions) ==
  \/ \E p \in positions : pointerDown(p)
  \/ \E p \in positions : pointerMove(p)
  \/ pointerUp

\* The renderer under rendering, resizing and panning.
Next ==
  \/ Lifecycle
  \/ \E size \in HostSizes \ {<<0, 0>>} : resize(size)
  \/ \E tasks \in GrowingTaskArrays : renderAllMarkers(tasks) /\ UNCHANGED hostVars
  \/ Pointer({<<100, 100>>, <<110, 100>>})

Spec == Init /\ [][Next]_vars

\* The renderer under every operation that could touch the viewport.
NextViewport ==
  \/ Lifecycle
  \/ \E size \in {<<400, 400>>} : resize(size)
  \/ \E tasks \in ViewportTasks : renderAllMarkers(tasks) /\ UNCHANGED hostVars
  \/ \E changed \in {<<>>, <<1>>}, tasks \in ViewportTasks :
       repaintChangedMarkers(changed, tasks) /\ UNCHANGED hostVars
  \/ Pointer(ViewportPositions)

SpecViewport == Init /\ [][NextViewport]_vars

\* The early renderer drawing a task under every checklist.
NextEarlyStatus == \E task \in EarlyTasks : earlyRenderSingleMarker(task)

SpecEarlyStatus == Init /\ [][NextEarlyStatus]_vars

\* The task store under the Dashboard's handlers.
NextDashboard ==
  \/ \E id \in TaskIds : handleTaskCreate(id)
  \/ \E id \in TaskIds, itemId \in ItemSlots : handleChecklistStatusToggle(id, itemId)
  \/ \E id \in TaskIds, itemId \in ItemSlots : handleDeleteChecklistItem(id, itemId)
  \/ \E id \in TaskIds, itemText \in Texts : handleAddChecklistItem(id, itemText)
  \/ \E id \in TaskIds, itemId \in ItemSlots, newText \in Texts :
       handleUpdateChecklistItemText(id, itemId, newText)

SpecDashboard == Init /\ [][NextDashboard]_vars

\* The task store under operations that go through and operations that fail.
NextFailure ==
  \/ \E id \in TaskIds : createTask(id)
  \/ \E id \in TaskIds : deleteTask(id)
  \/ \E id \in TaskIds, itemId \in ItemSlots, newStatus \in NewStatuses :
       updateChecklistItemStatus(id, itemId, newStatus)
  \/ \E name \in Mutations, id \in TaskIds : callWithoutSession(name, id)
  \/ \E name \in Mutations, id \in TaskIds : callMutation(name, id)
  \/ \E call \in app.calls : mutationThrows(call)
  \/ \E call \in app.calls : mutationFindsNoTask(call)

SpecFailure == Init /\ [][NextFailure]_vars

\* Users logging in and out over the task store.
NextSession ==
  \/ \E user \in Users : login(user)
  \/ logout
  \/ \E call \in app.calls : logoutResumed(call)
  \/ useTaskStore_loadAllTasks
  \/ \E call \in app.calls : useTaskStore_loadAllTasksResumed(call)
  \/ \E user \in Users : tasksEmitted(user)
  \/ \E id \in TaskIds : useTaskStore_createTask(id)
  \/ \E call \in app.calls : useTaskStore_createTaskResumed(call)
  \/ \E call \in app.calls : callRejected(call)

SpecSession == Init /\ [][NextSession]_vars

\* The components rendering and running their subscription effects.
NextReactive ==
  \/ DashboardRender
  \/ FloorPlanViewRender
  \/ DashboardEffect
  \/ FloorPlanViewEffect

SpecReactive == Init /\ [][NextReactive]_vars

\* The renderer under pointer gestures.
NextGesture ==
  \/ Lifecycle
  \/ \E size \in HostSizes : resize(size)
  \/ Pointer(PointerPositions)

SpecGesture == Init /\ [][NextGesture]_vars

\* The renderer under marker operations.
NextMarkers ==
  \/ Lifecycle
  \/ \E size \in {<<400, 400>>} : resize(size)
  \/ \E tasks \in TaskArrays : renderAllMarkers(tasks) /\ UNCHANGED hostVars
  \/ \E changed \in ChangedSets, tasks \in TaskArrays :
       repaintChangedMarkers(changed, tasks) /\ UNCHANGED hostVars

SpecMarkers == Init /\ [][NextMarkers]_vars

\* The renderer under marker operations and resizes at every moment of its
\* life, destroy() included.
NextLifecycle ==
  \/ Lifecycle
  \/ destroy
  \/ \E size \in {<<400, 400>>} : resize(size)
  \/ \E tasks \in GrowingTaskArrays : renderAllMarkers(tasks) /\ UNCHANGED hostVars
  \/ \E changed \in ChangedSets, tasks \in GrowingTaskArrays :
       repaintChangedMarkers(changed, tasks) /\ UNCHANGED hostVars

SpecLifecycle == Init /\ [][NextLifecycle]_vars

\* The renderer under pointer gestures about the edge of the image.
NextEdge ==
  \/ Lifecycle
  \/ \E size \in HostSizes : resize(size)
  \/ Pointer(EdgePositions)

SpecEdge == Init /\ [][NextEdge]_vars

\* The view over the task store and one renderer.
NextHandoff ==
  \/ Lifecycle
  \/ \E id \in TaskIds : createTask(id)
  \/ \E id \in TaskIds, itemId \in ItemSlots, newStatus \in NewStatuses :
       updateChecklistItemStatus(id, itemId, newStatus)
  \/ viewRender
  \/ renderAllEffect
  \/ repaintEffect

SpecHandoff == Init /\ [][NextHandoff]_vars

\* The early view over useTaskStore: what the user and other components do,
\* and what the view, the renderer and the database do in answer.
EarlyInputs ==
  \/ \E user \in Users : login(user)
  \/ earlyMount
  \/ earlyInitEffectAgain
  \/ useTaskStore_loadAllTasks
  \/ \E id \in TaskIds : useTaskStore_createTask(id)

EarlyInitSettles ==
  \E k \in 1..MaxEffects, initialized \in BOOLEAN : earlyInitRendererResumed(k, initialized)

EarlyCallResumes ==
  \/ \E call \in app.calls : useTaskStore_loadAllTasksResumed(call)
  \/ \E call \in app.calls : useTaskStore_createTaskResumed(call)

EarlyQueryEmits == \E user \in Users : tasksEmitted(user)

NextEarlyView ==
  \/ EarlyInputs
  \/ EarlyInitSettles
  \/ EarlyCallResumes
  \/ EarlyQueryEmits
  \/ earlyRender
  \/ earlyLoadTasksEffect
  \/ earlyRenderMarkersEffect

SpecEarlyView == Init /\ [][NextEarlyView]_vars

\* Every pending initialization settles, every pending call resumes, every
\* pending emission is delivered, and React runs the renders and effects it
\* has scheduled; the user and the other components are free to do nothing.
FairEarlyView ==
  /\ SpecEarlyView
  /\ WF_vars(EarlyInitSettles)
  /\ WF_vars(EarlyCallResumes)
  /\ WF_vars(EarlyQueryEmits)
  /\ WF_vars(earlyRender)
  /\ WF_vars(earlyLoadTasksEffect)
  /\ WF_vars(earlyRenderMarkersEffect)

\* The view over the reactive task store and one renderer.
NextConverge ==
  \/ Lifecycle
  \/ setupReactiveTasksQuery
  \/ queryEmits
  \/ \E id \in TaskIds : reactiveCreateTask(id)
  \/ \E id \in TaskIds, status \in NewStatuses :
       reactiveUpdateTask(id, [checklist |-> <<Item(status)>>])
  \/ \E id \in TaskIds : reactiveDeleteTask(id)
  \/ \E call \in app.calls : reactiveMutationResumed(call)
  \/ viewRender
  \/ renderAllEffect
  \/ repaintEffect

SpecConverge == Init /\ [][NextConverge]_vars

\* The task store under its operations.
NextStore ==
  \/ \E id \in TaskIds : createTask(id)
  \/ \E id \in TaskIds, updates \in Updates : updateTask(id, updates)
  \/ \E id \in TaskIds : deleteTask(id)
  \/ \E id \in TaskIds, itemId \in ItemSlots, newStatus \in NewStatuses :
       updateChecklistItemStatus(id, itemId, newStatus)
  \/ \E id \in TaskIds, itemText \in Texts : addChecklistItem(id, itemText)
  \/ \E id \in TaskIds, itemId \in ItemSlots : deleteChecklistItem(id, itemId)
  \/ \E id \in TaskIds, itemId \in ItemSlots, newText \in Texts :
       updateChecklistItemText(id, itemId, newText)
  \/ \E id \in TaskIds : markTaskForRepaint(id)
  \/ clearRepaintMarkers

SpecStore == Init /\ [][NextStore]_vars

\* The renderer drawing a task under every checklist.
NextStatus ==
  \/ Lifecycle
  \/ \E tasks \in StatusTaskArrays : renderAllMarkers(tasks) /\ UNCHANGED hostVars

SpecStatus == Init /\ [][NextStatus]_vars

\* The renderer under sequences of resizes.
NextResize ==
  \/ Lifecycle
  \/ \E size \in ResizeSizes : resize(size)
  \/ \E tasks \in GrowingTaskArrays : renderAllMarkers(tasks) /\ UNCHANGED hostVars

SpecResize == Init /\ [][NextResize]_vars

(***************************************************************************)
(* Properties.                                                             *)
(***************************************************************************)
Ready == pc = "ready"

Children == IF IsNull(markerContainer) THEN <<>> ELSE Val(markerContainer).children
Registered == DOMAIN markerTextures
Panned == ~IsNull(contentContainer) /\ Val(contentContainer) # [x |-> Num(0), y |-> Num(0)]

\* C1: on a ready renderer every marker in the container lies at the local
\* position ((x - 0.5) * imageWidth, (y - 0.5) * imageHeight) of the task it
\* was drawn for, and the screen position at which it is drawn maps back
\* through screenToFloorPlanCoords to the task's (x, y), whatever pans and
\* resizes have happened since it was rendered.
C1_RoundTrip ==
  Ready =>
    \A i \in 1..Len(Children) :
      LET marker == graphics[Children[i]]
          coordinates == marker.task.coordinates
          texture == Val(floorPlanSprite).texture
          at == MarkerScreen(Children[i])
      IN  /\ marker.x = RMul(RSub(coordinates.x, Half), Num(texture[1]))
          /\ marker.y = RMul(RSub(coordinates.y, Half), Num(texture[2]))
          /\ screenToFloorPlanCoords(at.x, at.y) = Some(coordinates)

\* A rendered marker after a pan gesture, just after a resize.
C1_Witness ==
  /\ Ready
  /\ Len(Children) = MaxTasks
  /\ Panned
  /\ lastOp.op = "resize"
  /\ gestures > 0

\* C2: once initialization has completed, the background sprite and the
\* marker container have the same scale and the same position.
C2_SpriteAndMarkersAligned ==
  Ready =>
    /\ Val(floorPlanSprite).scale = Val(markerContainer).scale
    /\ Val(floorPlanSprite).x = Val(markerContainer).x
    /\ Val(floorPlanSprite).y = Val(markerContainer).y

\* A pan that ends on a renderer that was resized to a host whose height
\* sets the scale.
C2_Witness ==
  /\ Ready
  /\ Val(pixiApp).width = 500
  /\ Panned
  /\ lastOp.op = "pointerup"

\* The last step was the pointer-up of a gesture on the image: the image
\* received the pointer-down and the pointer-up, with the click handlers of
\* enableClick in place.
GestureOnImageEnded ==
  /\ lastOp.op = "pointerup"
  /\ lastOp.gesture.armed
  /\ lastOp.gesture.target = "sprite"
  /\ lastOp.target = "sprite"

\* C3: a gesture on the image during which the pointer was more than 5 px
\* from the pointer-down position at some pointer-move invokes no create-task
\* callback at pointer-up, wherever the pointer-up lies.
C3_ClickSuppressed ==
  (GestureOnImageEnded /\ lastOp.gesture.exceeded) => lastOp.emitted = <<>>

\* C4: a gesture on the image during which the pointer was never more than
\* 5 px from the pointer-down position ends as a click: the callback is
\* invoked exactly once, with the normalized coordinates of the up position
\* (none if they are invalid), and the content container has not moved.
C4_ClickClassified ==
  (GestureOnImageEnded /\ ~lastOp.gesture.exceeded) =>
    LET coords == screenToFloorPlanCoords(Num(lastOp.at[1]), Num(lastOp.at[2]))
    IN  /\ lastOp.emitted = IF IsNull(coords) THEN <<>> ELSE <<Val(coords)>>
        /\ contentContainer = lastOp.gesture.offset

\* Down at (100,100), a move to (102,101), up there: one callback.
C4_Witness ==
  /\ GestureOnImageEnded
  /\ ~lastOp.gesture.exceeded
  /\ lastOp.gesture.down = <<100, 100>>
  /\ lastOp.at = <<102, 101>>
  /\ Len(lastOp.emitted) = 1

\* C5: after the pointer-up of a gesture that began on the content and
\* exceeded the threshold, the content container's position is its position
\* at pointer-down plus (up position - down position).
C5_PanDelta ==
  (lastOp.op = "pointerup" /\ lastOp.gesture.target # "none" /\ lastOp.gesture.exceeded) =>
    contentContainer =
      Some([x |-> RAdd(Val(lastOp.gesture.offset).x, Num(lastOp.at[1] - lastOp.gesture.down[1])),
            y |-> RAdd(Val(lastOp.gesture.offset).y, Num(lastOp.at[2] - lastOp.gesture.down[2]))])

Range(seq) == {seq[i] : i \in 1..Len(seq)}
Occurrences(seq, e) == Cardinality({i \in 1..Len(seq) : seq[i] = e})

\* Every registered marker is in the container once, and the container
\* holds nothing else.
OneMarkerEach(registry, children) ==
  /\ Len(children) = Cardinality(DOMAIN registry)
  /\ \A id \in DOMAIN registry : Occurrences(children, registry[id]) = 1

\* C6, as claimed: after repaintChangedMarkers(changedIds, tasks) on a ready
\* renderer the registry contains exactly one entry for each task id in
\* tasks and none for any other id.
C6_RegistryEqualsTasks ==
  (lastOp.op = "repaint" /\ lastOp.ready) => Registered = lastOp.ids

\* C6, amended: after repaintChangedMarkers(changedIds, tasks) on a ready
\* renderer, an id of changedIds is registered exactly when it is in tasks,
\* the ids outside changedIds are registered exactly when they were before
\* the call, and each registered marker is in the container once; so the
\* registry equals the ids of tasks after the call whenever it agreed with
\* tasks on the ids outside changedIds before it.
C6_RepaintSettlesChangedIds ==
  [][(lastOp'.op = "repaint" /\ lastOp'.ready) =>
       LET changed == Range(lastOp'.changed)
       IN  /\ \A id \in changed : id \in Registered' <=> id \in lastOp'.ids
           /\ \A id \in TaskIds \ changed : id \in Registered' <=> id \in Registered
           /\ OneMarkerEach(markerTextures, Children) =>
                OneMarkerEach(markerTextures', Children')
           /\ Registered \ changed = lastOp'.ids \ changed => Registered' = lastOp'.ids]_vars

\* A repaint that replaced one marker, removed another and left the
\* registry equal to the task list.
C6_Witness ==
  /\ lastOp.op = "repaint"
  /\ lastOp.ready
  /\ Len(lastOp.changed) = 2
  /\ Cardinality(lastOp.removed) = 2
  /\ Cardinality(lastOp.ids \cap Range(lastOp.changed)) = 1
  /\ Registered = lastOp.ids

\* C7: after renderAllMarkers(tasks) on a ready renderer, also when it was
\* called twice in a row with the same tasks, the registry's keys are the
\* ids of tasks and the container holds exactly one marker for each id, the
\* one registered for it.
C7_NoDuplication ==
  (lastOp.op = "renderAll" /\ lastOp.ready) =>
    /\ Registered = lastOp.ids
    /\ OneMarkerEach(markerTextures, Children)
    /\ \A id \in Registered : graphics[markerTextures[id]].task.id = id

\* renderAllMarkers called twice in a row with the same, full task list.
C7_Witness ==
  /\ lastOp.op = "renderAll"
  /\ lastOp.ready
  /\ lastOp.again
  /\ Cardinality(lastOp.ids) = MaxTasks

\* C8: repaintChangedMarkers({id}, tasks) with no task of that id in tasks
\* removes the marker of id from the container and the registry and adds
\* none; a second call with the same arguments changes nothing.
C8_IdempotentDelete ==
  [][(/\ lastOp'.op = "repaint"
      /\ lastOp'.ready
      /\ Len(lastOp'.changed) = 1
      /\ lastOp'.changed[1] \notin lastOp'.ids) =>
       LET id == lastOp'.changed[1]
       IN  /\ id \notin Registered'
           /\ id \in Registered => Occurrences(Children', markerTextures[id]) = 0
           /\ Range(Children') \subseteq Range(Children)
           /\ Registered' \subseteq Registered
           /\ (/\ lastOp.op = "repaint"
               /\ lastOp.ready
               /\ lastOp.changed = lastOp'.changed
               /\ lastOp.ids = lastOp'.ids) =>
                UNCHANGED <<pc, sceneVars, markerVars, dragVars, pointerVars, clickEnabled>>]_vars

\* The marker of a deleted task has just been removed.
C8_Witness ==
  /\ lastOp.op = "repaint"
  /\ lastOp.ready
  /\ Len(lastOp.changed) = 1
  /\ lastOp.changed[1] \notin lastOp.ids
  /\ lastOp.removed = {lastOp.changed[1]}
  /\ Registered # {}

\* C9: repaintChangedMarkers(changedIds, tasks) leaves every marker whose id
\* is not in changedIds as it was (same object, same position, registered
\* and in the container), and every id of changedIds that is in tasks ends
\* with a marker object that did not exist before the call.
C9_SelectiveRepaint ==
  [][(lastOp'.op = "repaint" /\ lastOp'.ready) =>
       LET changed == Range(lastOp'.changed)
       IN  /\ \A id \in Registered \ changed :
                /\ id \in Registered'
                /\ markerTextures'[id] = markerTextures[id]
                /\ graphics'[markerTextures[id]] = graphics[markerTextures[id]]
                /\ Occurrences(Children', markerTextures[id])
                     = Occurrences(Children, markerTextures[id])
           /\ \A id \in changed \cap lastOp'.ids :
                /\ id \in Registered'
                /\ markerTextures'[id] \notin DOMAIN graphics
                /\ Occurrences(Children', markerTextures'[id]) = 1]_vars

\* A repaint that replaced the marker of one task and kept that of another.
C9_Witness ==
  /\ lastOp.op = "repaint"
  /\ lastOp.ready
  /\ lastOp.removed \cap lastOp.ids # {}
  /\ Registered \ Range(lastOp.changed) # {}

\* C10: repaintChangedMarkers with an empty changed-id set changes nothing,
\* for any task list and any renderer state.
C10_EmptyRepaint ==
  [][(lastOp'.op = "repaint" /\ lastOp'.changed = <<>>) =>
       UNCHANGED <<pc, sceneVars, markerVars, dragVars, pointerVars, clickEnabled>>]_vars

\* An empty repaint on a resized renderer whose markers differ from the
\* task list it was given.
C10_Witness ==
  /\ lastOp.op = "repaint"
  /\ lastOp.ready
  /\ lastOp.changed = <<>>
  /\ Registered # {}
  /\ Registered # lastOp.ids
  /\ Val(pixiApp).width = 400

\* destroy() has been called on the renderer's application.
Destroyed == ~IsNull(pixiApp) /\ Val(pixiApp).destroyed

\* C11: once destroy() has been called on a ready renderer, no later call of
\* renderAllMarkers, repaintChangedMarkers or resize throws or changes the
\* registry, the containers, the sprite, the scale or the offset.
C11_PostDestroySafety ==
  [][(/\ Ready
      /\ Destroyed
      /\ lastOp'.op \in {"renderAll", "repaint", "resize"}) =>
       /\ lastOp'.op = "resize" => ~lastOp'.threw
       /\ UNCHANGED <<pc, sceneVars, markerVars>>]_vars

\* C12: when destroy() was called while initialize was suspended, at the
\* await of pixiApp.init or of the image load, the continuation that resumes
\* assigns no container and no sprite and leaves the markers alone.
C12_DestroyDuringPendingLoad ==
  [][(/\ Destroyed
      /\ pc \in {"awaitInit", "awaitLoad"}
      /\ lastOp'.op \in {"initializeResumed", "loadFloorPlan"}) =>
       UNCHANGED <<contentContainer, markerContainer, floorPlanSprite, markerVars>>]_vars

\* C13: when the image load has failed, initialize has rejected and the
\* renderer holds no application, no container and no sprite: it is as it
\* was constructed.
C13_ImageLoadFailure ==
  lastOp.op = "loadFloorPlanFailed" =>
    /\ pc = "failed"
    /\ IsNull(pixiApp)
    /\ IsNull(contentContainer)
    /\ IsNull(markerContainer)
    /\ IsNull(floorPlanSprite)

\* C14: renderAllMarkers, repaintChangedMarkers and resize called before
\* initialize, or while it is suspended at either await, on a renderer that
\* has not been destroyed, return without throwing and change nothing.
C14_PreReadyNoOp ==
  [][(/\ pc \in {"new", "awaitInit", "awaitLoad"}
      /\ ~Destroyed
      /\ lastOp'.op \in {"renderAll", "repaint", "resize"}) =>
       /\ lastOp'.op = "resize" => ~lastOp'.threw
       /\ UNCHANGED <<pc, sceneVars, markerVars, dragVars, pointerVars, clickEnabled>>]_vars

\* The last step was a resize of a ready renderer.
Resized == lastOp.op = "resize" /\ Ready /\ ~lastOp.threw

\* Every marker in the container is at the normalized position of its task:
\* at the local position of the task's coordinates, and drawn at the screen
\* position that maps back to them.
MarkersInPlace ==
  \A i \in 1..Len(Children) :
    LET marker == graphics[Children[i]]
        coordinates == marker.task.coordinates
        texture == Val(floorPlanSprite).texture
        at == MarkerScreen(Children[i])
    IN  /\ marker.x = RMul(RSub(coordinates.x, Half), Num(texture[1]))
        /\ marker.y = RMul(RSub(coordinates.y, Half), Num(texture[2]))
        /\ screenToFloorPlanCoords(at.x, at.y) = Some(coordinates)

\* C15, as claimed: after a resize of a ready renderer the scale is
\* min(w / imageWidth, h / imageHeight) * 0.9 for the host size (w, h) of
\* that resize, and every marker is at its task's normalized position.
C15_ScaleOfHostSize ==
  Resized =>
    LET texture == Val(floorPlanSprite).texture
    IN  /\ Val(floorPlanSprite).scale =
             RMul(RMin(Rat(lastOp.size[1], texture[1]), Rat(lastOp.size[2], texture[2])),
                  Rat(9, 10))
        /\ MarkersInPlace

\* C15, amended: after a resize of a ready renderer the scale of the sprite
\* and of the marker container is min(w / imageWidth, h / imageHeight) * 0.9
\* for the host size (w, h) of that resize, where a width of 0 counts as 800
\* and a height of 0 as 600, whatever the sizes of earlier resizes were, and
\* every marker is at its task's normalized position.
C15_ResizeStability ==
  Resized =>
    LET texture == Val(floorPlanSprite).texture
        w == IF lastOp.size[1] = 0 THEN 800 ELSE lastOp.size[1]
        h == IF lastOp.size[2] = 0 THEN 600 ELSE lastOp.size[2]
        scale == RMul(RMin(Rat(w, texture[1]), Rat(h, texture[2])), Rat(9, 10))
    IN  /\ Val(floorPlanSprite).scale = scale
        /\ Val(markerContainer).scale = scale
        /\ MarkersInPlace

\* resize(400, 300) followed by resize(800, 600) of a 1600 x 1200 image with
\* all markers drawn: the scale is 0.45.
C15_Witness ==
  /\ Resized
  /\ lastOp.size = <<800, 600>>
  /\ lastOp.previous = Some(<<400, 300>>)
  /\ Val(floorPlanSprite).texture = <<1600, 1200>>
  /\ Val(floorPlanSprite).scale = Rat(45, 100)
  /\ Len(Children) = MaxTasks

\* The statuses of a checklist's items.
StatusesOf(checklist) == {checklist[i].status : i \in 1..Len(checklist)}

\* C16: the status a marker is drawn with is blocked if any item of its
\* task's checklist is blocked; otherwise done if the checklist has items and
\* all are done; otherwise in_progress if any item is not not_started;
\* otherwise not_started, which includes the empty checklist; it is never
\* final_check_awaiting.
C16_StatusPrecedence ==
  \A h \in DOMAIN graphics :
    LET statuses == StatusesOf(graphics[h].task.checklist)
    IN  /\ graphics[h].status =
             IF "blocked" \in statuses THEN "blocked"
             ELSE IF statuses = {"done"} THEN "done"
             ELSE IF statuses \ {"not_started"} # {} THEN "in_progress"
             ELSE "not_started"
        /\ graphics[h].status # "final_check_awaiting"

\* A marker drawn as blocked for the checklist [blocked, done].
C16_Witness ==
  \E h \in DOMAIN graphics :
    /\ graphics[h].task.checklist = <<Item("blocked"), Item("done")>>
    /\ graphics[h].status = "blocked"

\* The normalized coordinates of a screen position: its offset from the
\* image's top left corner as a fraction of the image's drawn size.
NormalizedAt(p) ==
  LET sprite == Val(floorPlanSprite)
      cc == Val(contentContainer)
      width == RMul(Num(sprite.texture[1]), sprite.scale)
      height == RMul(Num(sprite.texture[2]), sprite.scale)
      left == RSub(RAdd(cc.x, sprite.x), RMul(Half, width))
      top == RSub(RAdd(cc.y, sprite.y), RMul(Half, height))
  IN  [x |-> RDiv(RSub(Num(p[1]), left), width), y |-> RDiv(RSub(Num(p[2]), top), height)]

InUnitSquare(c) ==
  /\ RLe(Num(0), c.x) /\ RLe(c.x, Num(1))
  /\ RLe(Num(0), c.y) /\ RLe(c.y, Num(1))

C19_EveryMutationMarks ==
  (lastOp.op \in Mutations /\ lastOp.ok) => lastOp.id \in store.tasksNeedingRepaint

\* C19, amended: after each successful createTask, updateTask, deleteTask,
\* updateChecklistItemStatus, addChecklistItem and deleteChecklistItem the id
\* of the task it changed is in tasksNeedingRepaint, and no id has left the
\* set; updateChecklistItemText, which changes no status, leaves the set as
\* it was.
C19_StatusMutationsMark ==
  [][/\ (lastOp'.op \in Mutations \ {"updateChecklistItemText"} /\ lastOp'.ok) =>
          /\ lastOp'.id \in store'.tasksNeedingRepaint
          /\ store.tasksNeedingRepaint \subseteq store'.tasksNeedingRepaint
     /\ lastOp'.op = "updateChecklistItemText" =>
          store'.tasksNeedingRepaint = store.tasksNeedingRepaint]_vars

\* The status of an item was set after the repaint set had been cleared:
\* the set holds the task's id again.
C19_Witness ==
  /\ lastOp.op = "updateChecklistItemStatus"
  /\ lastOp.ok
  /\ unpainted # {}
  /\ store.tasksNeedingRepaint = {lastOp.id}
  /\ ChecklistOf(lastOp.id)[1].status = "done"

\* C20: every task in the store has the coordinates it was created with.
C20_CoordinatesWriteOnce ==
  \A i \in 1..Len(store.tasks) :
    store.tasks[i].coordinates = CoordinatesOf(store.tasks[i].id)

\* C18: every id that leaves the repaint set has been passed to a
\* repaintChangedMarkers call since it was added: no id is cleared unpainted.
C18_RepaintSetHandoff == unpainted = {}

\* The viewport: the scale of the sprite and of the marker container, the
\* sprite's place in the content and the offset of the content container.
Viewport ==
  [sprite |-> floorPlanSprite,
   markerScale |-> IF IsNull(markerContainer) THEN Null ELSE Some(Val(markerContainer).scale),
   offset |-> contentContainer]

\* C27: renderAllMarkers, repaintChangedMarkers, pointer-down, pointer-up, a
\* pointer-move while no button is down and a pointer-move within 5 px of
\* the down position leave the scale and the container offset as they were.
C27_ViewportFrame ==
  [][/\ lastOp'.op \in {"renderAll", "repaint", "pointerdown", "pointerup"} =>
          Viewport' = Viewport
     /\ (lastOp'.op = "pointermove" /\ ~pressed) => Viewport' = Viewport
     /\ (/\ lastOp'.op = "pointermove"
         /\ pressed
         /\ (Val(gesture').at[1] - Val(gesture).down[1]) * (Val(gesture').at[1] - Val(gesture).down[1])
              + (Val(gesture').at[2] - Val(gesture).down[2]) * (Val(gesture').at[2] - Val(gesture).down[2])
              <= CLICK_THRESHOLD * CLICK_THRESHOLD)
          => Viewport' = Viewport]_vars

\* A drag has panned the content and the pointer has come back within 5 px
\* of the down position: that move left the panned offset in place.
C27_Witness ==
  /\ lastOp.op = "pointermove"
  /\ pressed
  /\ Val(gesture).down = <<100, 100>>
  /\ Val(gesture).at = <<103, 100>>
  /\ Val(gesture).exceeded
  /\ contentContainer # Val(gesture).offset

\* C29: the callback is invoked only at a pointer-up over the image that
\* ends a gesture whose pointer-down the image received as well: the down
\* position a click is measured from is the one of the gesture that ends.
C29_ClickWithinOneGesture ==
  (lastOp.op = "pointerup" /\ lastOp.emitted # <<>>) =>
    /\ lastOp.target = "sprite"
    /\ lastOp.gesture.target = "sprite"
    /\ lastOp.gesture.armed

\* The last step drew a task in the early renderer, with no item blocked
\* and not all items done.
EarlyUndecided ==
  /\ lastOp.op = "earlyRenderSingleMarker"
  /\ "blocked" \notin StatusesOf(lastOp.task.checklist)
  /\ StatusesOf(lastOp.task.checklist) # {"done"}

\* C30, as claimed: in the early renderer, for a checklist with no blocked
\* item and not all items done, the status is in_progress if and only if
\* some item has a status other than not_started.
C30_AnyStartedIsInProgress ==
  EarlyUndecided =>
    (lastOp.status = "in_progress"
       <=> StatusesOf(lastOp.task.checklist) \ {"not_started"} # {})

\* C30, amended: in the early renderer, for a checklist with no blocked item
\* and not all items done, the status is in_progress if and only if some
\* item has the status in_progress, and it is not_started otherwise.
C30_InProgressItemNeeded ==
  EarlyUndecided =>
    /\ lastOp.status = "in_progress" <=> "in_progress" \in StatusesOf(lastOp.task.checklist)
    /\ lastOp.status \in {"in_progress", "not_started"}

\* The early renderer drew the checklist [done, not_started] as not_started.
C30_Witness ==
  /\ EarlyUndecided
  /\ StatusesOf(lastOp.task.checklist) = {"done", "not_started"}
  /\ lastOp.status = "not_started"

\* The statuses that toggling leads to from the statuses in from: those and
\* the ones that any number of toggles make of them.
RECURSIVE ToggleReach(_)
ToggleReach(from) ==
  LET more == from \cup {nextStatus(st) : st \in from}
  IN  IF more = from THEN from ELSE ToggleReach(more)

\* C23: every item on the Dashboard's list can be brought to each of the
\* five statuses by toggling it: from the status it has, every status is
\* among those a sequence of toggles leads to.
C23_EveryStatusReachable ==
  \A i \in 1..Len(store.tasks) : \A j \in 1..Len(store.tasks[i].checklist) :
    ItemStatuses \subseteq ToggleReach({store.tasks[i].checklist[j].status})

\* C28: a mutation that fails, for want of a session or of the task or by
\* an error of the database, leaves the task list and the repaint set as
\* they were; when the operation has a loading flag and had a session, the
\* flag is false once the call has settled.
C28_FailureChangesNoData ==
  [][(lastOp'.op = "failed" \/ (lastOp'.op \in Mutations /\ ~lastOp'.ok)) =>
       /\ store'.tasks = store.tasks
       /\ store'.tasksNeedingRepaint = store.tasksNeedingRepaint
       /\ (lastOp'.op \in LoadingOperations
           \/ (/\ lastOp'.op = "failed"
               /\ lastOp'.name \in LoadingOperations
               /\ lastOp'.cause # "no session")) => ~store'.isLoading]_vars

\* An updateTask call has failed on a database error while the store held a
\* task marked for repaint: both are still there and the flag is down.
C28_Witness ==
  /\ lastOp = [op |-> "failed", name |-> "updateTask", id |-> 1, cause |-> "threw"]
  /\ store.tasks # <<>>
  /\ store.tasksNeedingRepaint # {}
  /\ ~store.isLoading

\* C21: the task store holds tasks of the user who is logged in only: none
\* once logout has completed, and none of an earlier user after the next
\* login, whenever the calls that were pending at logout resume.
C21_UserIsolation ==
  \A i \in 1..Len(store.tasks) :
    /\ ~IsNull(app.userSession)
    /\ store.tasks[i].userId = Val(app.userSession)

\* C22: with no store emitting, a component holds at most one subscription
\* on each store observable, however often it has rendered, and rendering
\* stops: the mount, the render that the values handed over at subscription
\* ask for and, for the child, the renders of its parent make three renders
\* at most.
C22_NoRenderLoop ==
  \A c \in {app.Dashboard, app.FloorPlanView} :
    /\ \A o \in DOMAIN c.subscriptions : c.subscriptions[o] <= 1
    /\ c.renders <= 3

\* C24: a run of the init effect that has been cleaned up and whose
\* initialization has settled has left nothing behind: its view element is
\* not in the mount element, its resize listener is not on the window and,
\* where the initialization succeeded, its renderer has been destroyed.
C24_NoRendererOutlivesEffect ==
  \A k \in DOMAIN app.initEffects :
    LET effect == app.initEffects[k] IN
    (effect.cleaned /\ effect.phase \in {"ready", "failed"}) =>
      /\ ~effect.viewAttached
      /\ ~effect.resizeListener
      /\ effect.phase = "ready" => effect.destroyed

\* Every call has resumed, the query has emitted the collection as it is,
\* and the view has rendered what the store holds and run its effects on a
\* ready renderer.
Settled ==
  /\ app.calls = {}
  /\ app.querySubscribed
  /\ store.tasksLoaded
  /\ store.tasks = app.collection
  /\ Ready
  /\ isRendererReady
  /\ view.engineReady
  /\ view.tasks = store.tasks
  /\ view.tasksNeedingRepaint = store.tasksNeedingRepaint
  /\ view.effects = <<>>

\* C25: once the mutations have completed and the task list and the repaint
\* set have reached the view, the markers in the container are those of the
\* tasks in the list, one for each, drawn from the task as it is now.
C25_MarkersConverge ==
  Settled =>
    /\ Len(Children) = Len(store.tasks)
    /\ {graphics[Children[i]].task : i \in 1..Len(Children)}
         = {store.tasks[i] : i \in 1..Len(store.tasks)}

\* The early view holds an initialized renderer and the store holds tasks.
EarlyDrawable ==
  /\ app.earlyView.mounted
  /\ ~IsNull(app.earlyView.engineRef)
  /\ store.tasks # <<>>

\* C26: whenever the early view holds an initialized renderer and the store
\* holds a non-empty task list, eventually renderAllMarkers has been called
\* on that renderer with that list (or the renderer or the list is no longer
\* the one it was).
C26_MarkersEventuallyDrawn ==
  EarlyDrawable ~>
    (~EarlyDrawable \/
     app.earlyView.drawn = Some([renderer |-> Val(app.earlyView.engineRef),
                                 tasks |-> store.tasks]))

====
